---- MODULE Spec2Model ----
(***************************************************************************)
(* The versioned metadata store of pyIRTS (core/metadata.py) and the       *)
(* admission of harvested items (harvesters/base.py), as a state machine.  *)
(*                                                                         *)
(* The metadata table is a sequence of rows; rowID is the position of the  *)
(* row (AUTOINCREMENT, rows are never removed).  SQL NULL is 0 for the     *)
(* integer columns (parentRowID, deleted, replacedByRowID) and the token   *)
(* None for the value column.  Python strings are sequences of one-letter  *)
(* strings, so that str.strip() is computed and not assumed.  Every SQL    *)
(* statement is modelled by its relational meaning as it is written in the *)
(* source.  datetime.now() is a logical clock that ticks once per call     *)
(* that writes.                                                            *)
(***************************************************************************)
EXTENDS Integers, Sequences, FiniteSets, TLC

VARIABLES
    metadata,   \* the metadata table
    sourceData, \* the sourceData table
    clock,      \* datetime.now()
    last,       \* the last call: its arguments, its result, the tables before it
    procs,      \* the calls that run statement by statement, one per process
    harvest,    \* the harvest run: its items, its position, its outcome
    mapper,     \* the FieldMapper: the mappings table, its cache, its last call
    run         \* main: the sources, the harvester at work, the results

vars == <<metadata, sourceData, clock, last, procs, harvest, mapper, run>>

NULL == 0

----------------------------------------------------------------------------
(* Python values *)

None == <<"None">>
PyTrue == <<"True">>
PyFalse == <<"False">>
WS == {" "}

IsStr(v) == v \notin {None, PyTrue, PyFalse}

RECURSIVE LStrip(_)
LStrip(s) == IF s # <<>> /\ Head(s) \in WS THEN LStrip(Tail(s)) ELSE s

RECURSIVE RStrip(_)
RStrip(s) ==
    IF s # <<>> /\ s[Len(s)] \in WS THEN RStrip(SubSeq(s, 1, Len(s) - 1)) ELSE s

\* str.strip()
Strip(s) == RStrip(LStrip(s))

\* without the strip() of metadata.py:109-110
NormalizeBoolOnly(value) ==
    IF value = PyTrue THEN <<"T", "R", "U", "E">>
    ELSE IF value = PyFalse THEN <<"F", "A", "L", "S", "E">>
    ELSE value

\* metadata.py:104-110: a bool becomes 'TRUE'/'FALSE', a str is stripped
NormalizeValue(value) ==
    IF value = PyTrue THEN <<"T", "R", "U", "E">>
    ELSE IF value = PyFalse THEN <<"F", "A", "L", "S", "E">>
    ELSE IF IsStr(value) THEN Strip(value)
    ELSE value

----------------------------------------------------------------------------
(* The database statements (core/database.py) *)

RowIDs(md) == 1..Len(md)

\* db.insert('metadata', {...}): the new row is current; lastrowid is its rowID
Insert(md, source, idInSource, parentRowID, field, place, value, now) ==
    Append(md, [rowID |-> Len(md) + 1, source |-> source, idInSource |-> idInSource,
                parentRowID |-> parentRowID, field |-> field, place |-> place,
                value |-> value, added |-> now, deleted |-> NULL,
                replacedByRowID |-> NULL])

\* Update that writes nothing: the old row stays current
UpdateNothing(md, rowID, now, newRowID) == md

\* Update that sets deleted and leaves replacedByRowID as it was
UpdateDeletedOnly(md, rowID, now, newRowID) ==
    [i \in RowIDs(md) |->
        IF md[i].rowID = rowID THEN [md[i] EXCEPT !.deleted = now] ELSE md[i]]

\* Update that sets replacedByRowID and leaves deleted as it was
UpdateReplacedOnly(md, rowID, now, newRowID) ==
    [i \in RowIDs(md) |->
        IF md[i].rowID = rowID THEN [md[i] EXCEPT !.replacedByRowID = newRowID]
        ELSE md[i]]

\* db.update('metadata', {'deleted': now, 'replacedByRowID': new}, {'rowID': id})
Update(md, rowID, now, newRowID) ==
    [i \in RowIDs(md) |->
        IF md[i].rowID = rowID
        THEN [md[i] EXCEPT !.deleted = now, !.replacedByRowID = newRowID]
        ELSE md[i]]

\* the UPDATE that sets replacedByRowID too, to the newest row
MarkDeletedReplaced(md, where, now) ==
    [i \in RowIDs(md) |->
        IF i \in where /\ md[i].deleted = NULL
        THEN [md[i] EXCEPT !.deleted = now, !.replacedByRowID = Len(md)]
        ELSE md[i]]

\* the UPDATE without AND deleted IS NULL
MarkDeletedAgain(md, where, now) ==
    [i \in RowIDs(md) |-> IF i \in where THEN [md[i] EXCEPT !.deleted = now] ELSE md[i]]

\* UPDATE metadata SET deleted = now WHERE <where> AND deleted IS NULL;
\* where is the set of the rowIDs its condition selects
MarkDeleted(md, where, now) ==
    [i \in RowIDs(md) |->
        IF i \in where /\ md[i].deleted = NULL
        THEN [md[i] EXCEPT !.deleted = now]
        ELSE md[i]]

\* the WHERE clause of save_value's SELECT (metadata.py:113-128)
IsCurrentAt(r, source, idInSource, parentRowID, field, place) ==
    /\ r.source = source
    /\ r.idInSource = idInSource
    /\ r.parentRowID = parentRowID
    /\ r.field = field
    /\ r.place = place
    /\ r.deleted = NULL

\* value = %s in a WHERE clause: never true of NULL
SqlEq(a, b) == a # <<"None">> /\ b # <<"None">> /\ a = b

Min(S) == CHOOSE x \in S : \A y \in S : x <= y

----------------------------------------------------------------------------
(* MetadataManager._mark_extra_metadata_as_deleted (metadata.py:252-305).  *)
(* currentFields is the set of the names in current_fields.                *)

\* place >= last_place in place of place > last_place
MarkExtraFromLastPlace(md, source, idInSource, parentRowID, field, lastPlace, currentFields, now) ==
    IF field # ""
    THEN LET W(r) == /\ r.source = source /\ r.idInSource = idInSource
                     /\ r.parentRowID = parentRowID /\ r.field = field
                     /\ r.place >= lastPlace
         IN  MarkDeleted(md, {i \in RowIDs(md) : W(md[i])}, now)
    ELSE IF currentFields # {}
    THEN LET W(r) == /\ r.source = source /\ r.idInSource = idInSource
                     /\ r.parentRowID = parentRowID
                     /\ r.field \notin currentFields
         IN  MarkDeleted(md, {i \in RowIDs(md) : W(md[i])}, now)
    ELSE IF parentRowID # NULL
    THEN LET W(r) == /\ r.source = source /\ r.idInSource = idInSource
                     /\ r.parentRowID = parentRowID
         IN  MarkDeleted(md, {i \in RowIDs(md) : W(md[i])}, now)
    ELSE md

\* place > last_place + 1 in place of place > last_place
MarkExtraAfterLastPlace(md, source, idInSource, parentRowID, field, lastPlace, currentFields, now) ==
    IF field # ""
    THEN LET W(r) == /\ r.source = source /\ r.idInSource = idInSource
                     /\ r.parentRowID = parentRowID /\ r.field = field
                     /\ r.place > lastPlace + 1
         IN  MarkDeleted(md, {i \in RowIDs(md) : W(md[i])}, now)
    ELSE IF currentFields # {}
    THEN LET W(r) == /\ r.source = source /\ r.idInSource = idInSource
                     /\ r.parentRowID = parentRowID
                     /\ r.field \notin currentFields
         IN  MarkDeleted(md, {i \in RowIDs(md) : W(md[i])}, now)
    ELSE IF parentRowID # NULL
    THEN LET W(r) == /\ r.source = source /\ r.idInSource = idInSource
                     /\ r.parentRowID = parentRowID
         IN  MarkDeleted(md, {i \in RowIDs(md) : W(md[i])}, now)
    ELSE md

\* without the branch that deletes the children of a parent
MarkExtraNoChildren(md, source, idInSource, parentRowID, field, lastPlace, currentFields, now) ==
    IF field # ""
    THEN LET W(r) == /\ r.source = source /\ r.idInSource = idInSource
                     /\ r.parentRowID = parentRowID /\ r.field = field
                     /\ r.place > lastPlace
         IN  MarkDeleted(md, {i \in RowIDs(md) : W(md[i])}, now)
    ELSE IF currentFields # {}
    THEN LET W(r) == /\ r.source = source /\ r.idInSource = idInSource
                     /\ r.parentRowID = parentRowID
                     /\ r.field \notin currentFields
         IN  MarkDeleted(md, {i \in RowIDs(md) : W(md[i])}, now)
    ELSE md

\* the third branch without the parentRowID of its WHERE clause
MarkExtraEveryParent(md, source, idInSource, parentRowID, field, lastPlace, currentFields, now) ==
    IF field # ""
    THEN LET W(r) == /\ r.source = source /\ r.idInSource = idInSource
                     /\ r.parentRowID = parentRowID /\ r.field = field
                     /\ r.place > lastPlace
         IN  MarkDeleted(md, {i \in RowIDs(md) : W(md[i])}, now)
    ELSE IF currentFields # {}
    THEN LET W(r) == /\ r.source = source /\ r.idInSource = idInSource
                     /\ r.parentRowID = parentRowID
                     /\ r.field \notin currentFields
         IN  MarkDeleted(md, {i \in RowIDs(md) : W(md[i])}, now)
    ELSE IF parentRowID # NULL
    THEN LET W(r) == r.source = source /\ r.idInSource = idInSource
         IN  MarkDeleted(md, {i \in RowIDs(md) : W(md[i])}, now)
    ELSE md

\* the three UPDATEs of metadata.py:263-305 without the test of source and idInSource
MarkExtraAnyEntity(md, source, idInSource, parentRowID, field, lastPlace, currentFields, now) ==
    IF field # ""
    THEN LET W(r) == /\ r.parentRowID = parentRowID /\ r.field = field
                     /\ r.place > lastPlace
         IN  MarkDeleted(md, {i \in RowIDs(md) : W(md[i])}, now)
    ELSE IF currentFields # {}
    THEN LET W(r) == /\ r.parentRowID = parentRowID
                     /\ r.field \notin currentFields
         IN  MarkDeleted(md, {i \in RowIDs(md) : W(md[i])}, now)
    ELSE IF parentRowID # NULL
    THEN LET W(r) == r.parentRowID = parentRowID
         IN  MarkDeleted(md, {i \in RowIDs(md) : W(md[i])}, now)
    ELSE md

MarkExtraMetadataAsDeleted(md, source, idInSource, parentRowID, field, lastPlace, currentFields, now) ==
    IF field # ""
    THEN LET W(r) == /\ r.source = source /\ r.idInSource = idInSource
                     /\ r.parentRowID = parentRowID /\ r.field = field
                     /\ r.place > lastPlace
         IN  MarkDeleted(md, {i \in RowIDs(md) : W(md[i])}, now)
    ELSE IF currentFields # {}
    THEN LET W(r) == /\ r.source = source /\ r.idInSource = idInSource
                     /\ r.parentRowID = parentRowID
                     /\ r.field \notin currentFields
         IN  MarkDeleted(md, {i \in RowIDs(md) : W(md[i])}, now)
    ELSE IF parentRowID # NULL
    THEN LET W(r) == /\ r.source = source /\ r.idInSource = idInSource
                     /\ r.parentRowID = parentRowID
         IN  MarkDeleted(md, {i \in RowIDs(md) : W(md[i])}, now)
    ELSE md

----------------------------------------------------------------------------
(* MetadataManager.save_source_data (metadata.py:22-79).  sd is the        *)
(* sourceData table, a sequence of rows like the metadata table.           *)

\* db.insert('sourceData', {...}) (metadata.py:49-55, 61-67)
InsertSourceData(sd, source, idInSource, data, format, now) ==
    Append(sd, [rowID |-> Len(sd) + 1, source |-> source, idInSource |-> idInSource,
                sourceData |-> data, format |-> format, added |-> now,
                deleted |-> NULL, replacedByRowID |-> NULL])

\* without the UPDATE of the old row (metadata.py:68-72)
SaveSourceDataKeepsOld(sd, now, source, idInSource, data, format) ==
    LET found == {i \in RowIDs(sd) :
                    /\ sd[i].source = source /\ sd[i].idInSource = idInSource
                    /\ sd[i].deleted = NULL}
    IN  IF found = {}
        THEN [sd |-> InsertSourceData(sd, source, idInSource, data, format, now),
              recordType |-> "new"]
        ELSE IF sd[Min(found)].sourceData # data
        THEN [sd |-> InsertSourceData(sd, source, idInSource, data, format, now),
              recordType |-> "modified"]
        ELSE [sd |-> sd, recordType |-> "unchanged"]

SaveSourceData(sd, now, source, idInSource, data, format) ==
    LET found == {i \in RowIDs(sd) :
                    /\ sd[i].source = source /\ sd[i].idInSource = idInSource
                    /\ sd[i].deleted = NULL}
    IN  IF found = {}
        THEN [sd |-> InsertSourceData(sd, source, idInSource, data, format, now),
              recordType |-> "new"]
        ELSE IF sd[Min(found)].sourceData # data
        THEN [sd |-> Update(InsertSourceData(sd, source, idInSource, data, format, now),
                            sd[Min(found)].rowID, now, Len(sd) + 1),
              recordType |-> "modified"]
        ELSE [sd |-> sd, recordType |-> "unchanged"]

----------------------------------------------------------------------------
(* MetadataManager.save_value (metadata.py:81-170) *)

SaveValue(md, now, source, idInSource, field, place, value, parentRowID) ==
    LET v == NormalizeValue(value)
        found == {i \in RowIDs(md) :
                    IsCurrentAt(md[i], source, idInSource, parentRowID, field, place)}
    IN  IF found = {}
        THEN [md |-> Insert(md, source, idInSource, parentRowID, field, place, v, now),
              rowID |-> Len(md) + 1, status |-> "new"]
        ELSE LET existing == md[Min(found)] IN
             IF existing.value # v
             THEN LET newRowID == Len(md) + 1
                      md1 == Insert(md, source, idInSource, parentRowID, field, place,
                                    v, now)
                      md2 == Update(md1, existing.rowID, now, newRowID)
                      md3 == MarkExtraMetadataAsDeleted(md2, source, idInSource,
                                 existing.rowID, "", NULL, {}, now)
                  IN  [md |-> md3, rowID |-> newRowID, status |-> "updated"]
             ELSE [md |-> md, rowID |-> existing.rowID, status |-> "unchanged"]

----------------------------------------------------------------------------
(* MetadataManager.save_values (metadata.py:172-250).                      *)
(* A record is the sequence of the (field, values) items of the dict, in   *)
(* the order of the dict.  values is a list of entries, a flat str, or a    *)
(* single entry that is not in a list.  An entry is a value dict:          *)
(* hasValue and hasChildren say which keys it has; an entry with neither   *)
(* is the empty dict (or None).  The report is the sequence of the         *)
(* (field, place, parent, rowID, status) of every save_value made.         *)

Entry(value) ==
    [hasValue |-> TRUE, value |-> value, hasChildren |-> FALSE, children |-> <<>>]
EntryWithChildren(value, children) ==
    [hasValue |-> TRUE, value |-> value, hasChildren |-> TRUE, children |-> children]
EmptyEntry ==
    [hasValue |-> FALSE, value |-> None, hasChildren |-> FALSE, children |-> <<>>]
List(entries) == [type |-> "list", list |-> entries, str |-> <<>>]
FlatStr(s) == [type |-> "str", list |-> <<>>, str |-> s]
Single(entry) == [type |-> "dict", list |-> <<entry>>, str |-> <<>>]
Item(field, values) == [field |-> field, values |-> values]

\* metadata.py:201-207
ValuesList(values) ==
    IF values.type = "str" THEN <<Entry(values.str)>>
    ELSE IF values.type # "list" THEN <<values.list[1]>>
    ELSE values.list

\* the test of metadata.py:210-216 without that of the blank string
SkippedBlankKept(e) ==
    \/ ~e.hasValue
    \/ e.value = None

\* metadata.py:210-216: the entries that are passed over
Skipped(e) ==
    \/ ~e.hasValue
    \/ e.value = None
    \/ IsStr(e.value) /\ Strip(e.value) = <<>>

Line(field, place, parent, res) ==
    [field |-> field, place |-> place, parent |-> parent, rowID |-> res.rowID,
     status |-> res.status]

RECURSIVE SaveValues(_, _, _, _, _, _, _, _)
RECURSIVE SaveEntries(_, _, _, _, _, _, _, _)
RECURSIVE SaveFields(_, _, _, _, _, _, _)

\* metadata.py:227-232: the children of the entry e are saved under the row that
\* save_value returned (res), as a record that is not complete; rep is the report
\* so far and c what the recursive call returns
AppendReport(rep, c) == [md |-> c.md, report |-> rep \o c.report]

\* the recursion made for every entry, as a complete record
SaveChildrenComplete(rep, res, now, source, idInSource, e) ==
    AppendReport(rep, SaveValues(res.md, now, source, idInSource, e.children,
                                 res.rowID, {}, TRUE))

\* the children saved under the row that save_value superseded, when it did
SaveChildrenUnderReplaced(rep, res, now, source, idInSource, e) ==
    IF e.hasChildren /\ e.children # <<>>
    THEN AppendReport(rep, SaveValues(res.md, now, source, idInSource, e.children,
                                      Min({res.rowID} \cup
                                          {i \in RowIDs(res.md) :
                                              res.md[i].replacedByRowID = res.rowID}),
                                      {}, FALSE))
    ELSE [md |-> res.md, report |-> rep]

SaveChildren(rep, res, now, source, idInSource, e) ==
    IF e.hasChildren /\ e.children # <<>>
    THEN AppendReport(rep, SaveValues(res.md, now, source, idInSource, e.children,
                                      res.rowID, {}, FALSE))
    ELSE [md |-> res.md, report |-> rep]

\* metadata.py:218-232: res is what save_value returned for the entry e
SaveEntry(st, res, now, source, idInSource, field, place, parentRowID, e) ==
    SaveChildren(Append(st.report, Line(field, place, parentRowID, res)), res, now,
                 source, idInSource, e)

\* the loop of metadata.py:209-232 from index place on; st is [md, report]
SaveEntries(st, now, source, idInSource, field, values, place, parentRowID) ==
    IF place >= Len(values) THEN st
    ELSE SaveEntries(
            IF Skipped(values[place + 1]) THEN st
            ELSE SaveEntry(st,
                           SaveValue(st.md, now, source, idInSource, field, place,
                                     values[place + 1].value, parentRowID),
                           now, source, idInSource, field, place, parentRowID,
                           values[place + 1]),
            now, source, idInSource, field, values, place + 1, parentRowID)

\* metadata.py:234-239: the places beyond the last index of the list
MarkExtraPlaces(st, now, source, idInSource, field, values, parentRowID) ==
    IF values # <<>>
    THEN [md |-> MarkExtraMetadataAsDeleted(st.md, source, idInSource, parentRowID,
                     field, Len(values) - 1, {}, now),
          report |-> st.report]
    ELSE st

\* the loop of metadata.py:198-239 from the k-th item of the record on
SaveFields(st, now, source, idInSource, record, k, parentRowID) ==
    IF k > Len(record) THEN st
    ELSE SaveFields(
            MarkExtraPlaces(
                SaveEntries(st, now, source, idInSource, record[k].field,
                            ValuesList(record[k].values), 0, parentRowID),
                now, source, idInSource, record[k].field,
                ValuesList(record[k].values), parentRowID),
            now, source, idInSource, record, k + 1, parentRowID)

RecordFields(record) == {record[k].field : k \in 1..Len(record)}

\* metadata.py:241-248: the fields that are neither in the record nor ignored
MarkExtraFields(st, now, source, idInSource, parentRowID, currentFields) ==
    [md |-> MarkExtraMetadataAsDeleted(st.md, source, idInSource, parentRowID, "", NULL,
                                       currentFields, now),
     report |-> st.report]

SaveValuesLoop(md, now, source, idInSource, record, parentRowID) ==
    SaveFields([md |-> md, report |-> <<>>], now, source, idInSource, record, 1,
               parentRowID)

\* the field pruning of metadata.py:241-248 without the test of complete_record
SaveValuesAlwaysPrune(md, now, source, idInSource, record, parentRowID, existingFieldsToIgnore, completeRecord) ==
    MarkExtraFields(SaveValuesLoop(md, now, source, idInSource, record, parentRowID),
                    now, source, idInSource, parentRowID,
                    RecordFields(record) \cup existingFieldsToIgnore)

\* the field pruning of metadata.py:241-248 without existing_fields_to_ignore
SaveValuesNoIgnore(md, now, source, idInSource, record, parentRowID, existingFieldsToIgnore, completeRecord) ==
    IF completeRecord
    THEN MarkExtraFields(SaveValuesLoop(md, now, source, idInSource, record, parentRowID),
                         now, source, idInSource, parentRowID, RecordFields(record))
    ELSE SaveValuesLoop(md, now, source, idInSource, record, parentRowID)

SaveValues(md, now, source, idInSource, record, parentRowID, existingFieldsToIgnore, completeRecord) ==
    IF completeRecord
    THEN MarkExtraFields(SaveValuesLoop(md, now, source, idInSource, record, parentRowID),
                         now, source, idInSource, parentRowID,
                         RecordFields(record) \cup existingFieldsToIgnore)
    ELSE SaveValuesLoop(md, now, source, idInSource, record, parentRowID)

----------------------------------------------------------------------------
(* Strings of the program *)

arxiv == <<"a", "r", "x", "i", "v">>
crossref == <<"c", "r", "o", "s", "s", "r", "e", "f">>
irts == <<"i", "r", "t", "s">>
repository == <<"r", "e", "p", "o", "s", "i", "t", "o", "r", "y">>
inProcess == <<"i", "n", "P", "r", "o", "c", "e", "s", "s">>

Digit == [c \in {"0", "1", "2", "3", "4", "5", "6", "7", "8", "9"} |->
            CASE c = "0" -> 0 [] c = "1" -> 1 [] c = "2" -> 2 [] c = "3" -> 3
              [] c = "4" -> 4 [] c = "5" -> 5 [] c = "6" -> 6 [] c = "7" -> 7
              [] c = "8" -> 8 [] c = "9" -> 9]

DigitChar(d) == CHOOSE c \in DOMAIN Digit : Digit[c] = d

\* str(n) for n >= 0
RECURSIVE Str(_)
Str(n) == IF n < 10 THEN <<DigitChar(n)>> ELSE Append(Str(n \div 10), DigitChar(n % 10))

\* CAST(s AS UNSIGNED): the number written by the leading digits of s, 0 if none
RECURSIVE CastUnsignedFrom(_, _)
CastUnsignedFrom(acc, s) ==
    IF s # <<>> /\ Head(s) \in DOMAIN Digit
    THEN CastUnsignedFrom(10 * acc + Digit[Head(s)], Tail(s))
    ELSE acc

CastUnsigned(s) == CastUnsignedFrom(0, s)

\* SUBSTRING(s, pos): s from the 1-based position pos on
Substring(s, pos) == IF pos > Len(s) THEN <<>> ELSE SubSeq(s, pos, Len(s))

\* s LIKE '{prefix}_%': '_' stands for any one character, '%' for any string
LikePrefix(s, prefix) ==
    /\ Len(s) >= Len(prefix) + 1
    /\ SubSeq(s, 1, Len(prefix)) = prefix

Max(S) == CHOOSE x \in S : \A y \in S : x >= y

----------------------------------------------------------------------------
(* BaseHarvester (harvesters/base.py) *)

\* SUBSTRING from LENGTH(source) + 1, the position of the '_'
GenerateNewIdFromUnderscore(md, source) ==
    LET nums == {CastUnsigned(Substring(md[i].idInSource, Len(source) + 1)) :
                    i \in {j \in RowIDs(md) :
                              /\ md[j].source = irts
                              /\ LikePrefix(md[j].idInSource, source)}}
        maxId == IF nums = {} THEN NULL ELSE Max(nums)
        nextId == IF maxId # NULL THEN maxId + 1 ELSE 1
    IN  source \o <<"_">> \o Str(nextId)

\* _generate_new_id (base.py:218-233)
GenerateNewId(md, source) ==
    LET nums == {CastUnsigned(Substring(md[i].idInSource, Len(source) + 2)) :
                    i \in {j \in RowIDs(md) :
                              /\ md[j].source = irts
                              /\ LikePrefix(md[j].idInSource, source)}}
        maxId == IF nums = {} THEN NULL ELSE Max(nums)
        nextId == IF maxId # NULL THEN maxId + 1 ELSE 1
    IN  source \o <<"_">> \o Str(nextId)

\* the lookup on the deleted rows in place of the current ones
CheckExistingRecordsDeleted(md, value, field, source) ==
    {i \in RowIDs(md) :
        /\ md[i].source = source /\ md[i].field = field
        /\ SqlEq(md[i].value, value) /\ md[i].deleted # NULL}

\* _check_existing_records (base.py:204-216): the rows the query returns
CheckExistingRecords(md, value, field, source) ==
    {i \in RowIDs(md) :
        /\ md[i].source = source /\ md[i].field = field
        /\ SqlEq(md[i].value, value) /\ md[i].deleted = NULL}

\* what "SELECT value ... AND field = f AND deleted IS NULL LIMIT 1" can return
\* through get_values(single_value=True): any one matching row's value, None if
\* there is none (base.py:81-119)
CurrentValues(md, source, idInSource, field) ==
    LET rows == {i \in RowIDs(md) :
                    /\ md[i].source = source /\ md[i].idInSource = idInSource
                    /\ md[i].field = field /\ md[i].deleted = NULL}
    IN  IF rows = {} THEN {None} ELSE {md[i].value : i \in rows}

\* Python truth of a str-or-None
Truthy(v) == v # None /\ v # <<>>

\* base.py:140-157: the title and type lookup (no filter on deleted)
TitleTypeMatch(md, title, typeValue) ==
    {i \in RowIDs(md) :
        /\ md[i].source \in {irts, repository}
        /\ md[i].field = "dc.title"
        /\ SqlEq(md[i].value, title)
        /\ \E j \in RowIDs(md) :
              /\ md[j].idInSource = md[i].idInSource
              /\ md[j].source \in {irts, repository}
              /\ md[j].field = "dc.type"
              /\ SqlEq(md[j].value, typeValue)}

\* base.py:159-171: the pointer pair, or the id field, under 'irts'
ExistingIrtsEntry(md, source, idInSource, idInSourceField) ==
    {i \in RowIDs(md) :
        /\ md[i].source = irts
        /\ \/ /\ md[i].field = "irts.source" /\ SqlEq(md[i].value, source)
              /\ md[i].deleted = NULL
              /\ \E j \in RowIDs(md) :
                    /\ md[j].parentRowID = md[i].rowID
                    /\ md[j].source = irts /\ md[j].field = "irts.idInSource"
                    /\ SqlEq(md[j].value, idInSource) /\ md[j].deleted = NULL
           \/ /\ md[i].field = idInSourceField /\ SqlEq(md[i].value, idInSource)
              /\ md[i].deleted = NULL}

\* base.py:121-173: TRUE when no lookup finds the item
AddToProcessFlag(md, source, idInSource, idInSourceField, typeValue, doi, title) ==
    /\ CheckExistingRecords(md, idInSource, idInSourceField, repository) = {}
    /\ (Truthy(doi) /\ idInSourceField # "dc.identifier.doi") =>
          /\ CheckExistingRecords(md, doi, "dc.identifier.doi", repository) = {}
          /\ CheckExistingRecords(md, doi, "dc.identifier.doi", irts) = {}
    /\ (~Truthy(doi) /\ Truthy(title) /\ Truthy(typeValue)) =>
          TitleTypeMatch(md, title, typeValue) = {}
    /\ ExistingIrtsEntry(md, source, idInSource, idInSourceField) = {}

\* base.py:183: irts.idInSource is saved under the irts.source row (res)
SavePointer(res, now, idInIRTS, idInSource) ==
    SaveValue(res.md, now, irts, idInIRTS, "irts.idInSource", 1, idInSource,
              res.rowID).md

\* one top-level save_value of base.py:184-194, at place 1
SaveIrtsValue(md, now, idInIRTS, field, value) ==
    SaveValue(md, now, irts, idInIRTS, field, 1, value, NULL).md

SaveDoi(md, now, idInIRTS, idInSourceField, doi) ==
    IF Truthy(doi) /\ idInSourceField # "dc.identifier.doi"
    THEN SaveIrtsValue(md, now, idInIRTS, "dc.identifier.doi", doi)
    ELSE md

SaveHarvestBasis(md, now, idInIRTS, harvestBasis) ==
    IF Truthy(harvestBasis)
    THEN SaveIrtsValue(md, now, idInIRTS, "irts.harvest.basis", harvestBasis)
    ELSE md

\* base.py:180-194: the rows of the new tracking record, each by save_value
SaveIrtsEntry(md, now, source, idInSource, idInSourceField, harvestBasis, idInIRTS, typeValue, doi, title, dateIssued) ==
    SaveHarvestBasis(
      SaveDoi(
        SaveIrtsValue(
          SaveIrtsValue(
            SaveIrtsValue(
              SaveIrtsValue(
                SaveIrtsValue(
                  SavePointer(
                    SaveValue(md, now, irts, idInIRTS, "irts.source", 1, source, NULL),
                    now, idInIRTS, idInSource),
                  now, idInIRTS, "dc.type", typeValue),
                now, idInIRTS, "irts.status", inProcess),
              now, idInIRTS, idInSourceField, idInSource),
            now, idInIRTS, "dc.title", title),
          now, idInIRTS, "dc.date.issued", dateIssued),
        now, idInIRTS, idInSourceField, doi),
      now, idInIRTS, harvestBasis)

\* base.py:175-202
Admit(md, now, source, idInSource, idInSourceField, harvestBasis, idInIRTS, typeValue, doi, title, dateIssued) ==
    [md |-> SaveIrtsEntry(md, now, source, idInSource, idInSourceField, harvestBasis,
                          idInIRTS, typeValue, doi, title, dateIssued),
     status |-> "inProcess", idInIRTS |-> idInIRTS]

\* add_to_process (base.py:61-202), given what the four LIMIT 1 reads returned
AddToProcess(md, now, source, idInSource, idInSourceField, harvestBasis, typeValue, doi, title, dateIssued) ==
    IF AddToProcessFlag(md, source, idInSource, idInSourceField, typeValue, doi, title)
    THEN Admit(md, now, source, idInSource, idInSourceField, harvestBasis,
               GenerateNewId(md, source), typeValue, doi, title, dateIssued)
    ELSE [md |-> md, status |-> "existing", idInIRTS |-> <<>>]

----------------------------------------------------------------------------
(* The calls.  last records the call that led to the state: its arguments, *)
(* its result and the table before it (pre).  repeated says that the call  *)
(* before it was the same call with the same arguments; prevStatus and     *)
(* prevReport are then what that call returned.                            *)

MaxClock == 2

NoCall ==
    [op |-> "none", source |-> <<>>, idInSource |-> <<>>, field |-> "", place |-> 0,
     value |-> None, parentRowID |-> NULL, record |-> <<>>, ignore |-> {},
     complete |-> FALSE, basis |-> None, pre |-> <<>>, rowID |-> NULL, status |-> "",
     report |-> <<>>, idInIRTS |-> <<>>, repeated |-> FALSE, prevStatus |-> "",
     prevReport |-> <<>>, data |-> <<>>, format |-> "", preSourceData |-> <<>>,
     admitted |-> {}, issued |-> <<>>]

\* the arguments of the last call alone
Arguments(call) ==
    [call EXCEPT !.pre = <<>>, !.rowID = NULL, !.status = "", !.report = <<>>,
                 !.idInIRTS = <<>>, !.repeated = FALSE, !.prevStatus = "",
                 !.prevReport = <<>>, !.preSourceData = <<>>, !.admitted = {},
                 !.issued = <<>>]

Now == clock + 1

Tick(md) == IF md = metadata THEN clock ELSE clock + 1

\* a concrete parent_row_id is a current row of the same (source, idInSource)
Parents(md, key) ==
    {i \in RowIDs(md) : /\ md[i].source = key[1] /\ md[i].idInSource = key[2]
                        /\ md[i].deleted = NULL}

\* a process that runs no call
Idle ==
    [pc |-> "idle", op |-> "none", source |-> <<>>, idInSource |-> <<>>, field |-> "",
     place |-> 0, value |-> None, parentRowID |-> NULL, existing |-> NULL,
     newRowID |-> NULL, idInIRTS |-> <<>>, status |-> "", pre |-> <<>>,
     raced |-> FALSE, overwrote |-> FALSE]

Procs == {1, 2}

\* no harvest run yet
NoHarvest ==
    [pc |-> "idle", source |-> <<>>, items |-> <<>>, index |-> 1, processed |-> {},
     failed |-> {}, pre |-> <<>>, preSourceData |-> <<>>]

\* FieldMapper.__init__ (mapper.py:18-21): the caches are empty; no row of the
\* mappings table is known yet; no call of map_field was made
NoMapper ==
    [mappings |-> {}, cache |-> {},
     call |-> [source |-> <<>>, sourceField |-> <<>>, parentField |-> <<>>,
               result |-> <<>>, cached |-> FALSE, mappings |-> {}]]

\* BaseHarvester.__init__ (base.py:26-33)
ZeroCounts ==
    [all |-> 0, new |-> 0, modified |-> 0, deleted |-> 0, unchanged |-> 0, skipped |-> 0]

\* main has not started.  results are the dictionaries harvest_source returned,
\* source by source; todo, asked, counts and types belong to the harvester at
\* work: the ids it has still to ask for, the items it asked for, its
\* record_counts and the recordType of every record it processed.
NoRun ==
    [pc |-> "idle", sources |-> <<>>, type |-> "", index |-> 1, results |-> <<>>,
     total |-> 0, mailed |-> FALSE, todo |-> {}, asked |-> 0, counts |-> ZeroCounts,
     types |-> <<>>]

Init ==
    /\ metadata = <<>>
    /\ sourceData = <<>>
    /\ clock = 0
    /\ last = NoCall
    /\ procs = [p \in Procs |-> Idle]
    /\ harvest = NoHarvest
    /\ mapper = NoMapper
    /\ run = NoRun

\* the step of a call: res is what it returned, call its arguments
Step(res, call) ==
    /\ Tick(res.md) <= MaxClock
    /\ metadata' = res.md
    /\ clock' = Tick(res.md)
    /\ UNCHANGED <<sourceData, procs, harvest, mapper, run>>
    /\ last' = [call EXCEPT !.pre = metadata, !.preSourceData = sourceData,
                    !.rowID = IF call.op = "save_value" THEN res.rowID ELSE NULL,
                    !.status = IF call.op = "save_values" THEN "" ELSE res.status,
                    !.report = IF call.op = "save_values" THEN res.report ELSE <<>>,
                    !.idInIRTS = IF call.op = "add_to_process" THEN res.idInIRTS
                                 ELSE <<>>,
                    !.repeated = (call = Arguments(last)),
                    !.prevStatus = IF call = Arguments(last) THEN last.status ELSE "",
                    !.prevReport = IF call = Arguments(last) THEN last.report ELSE <<>>]

\* save_value(source, idInSource, field, place, value, parent)
DoSaveValue(key, field, place, value, parent) ==
    Step(SaveValue(metadata, Now, key[1], key[2], field, place, value, parent),
         [NoCall EXCEPT !.op = "save_value", !.source = key[1], !.idInSource = key[2],
                        !.field = field, !.place = place, !.value = value,
                        !.parentRowID = parent])

\* save_values(source, idInSource, record, parent, ignore, complete)
DoSaveValues(key, record, parent, ignore, complete) ==
    Step(SaveValues(metadata, Now, key[1], key[2], record, parent, ignore, complete),
         [NoCall EXCEPT !.op = "save_values", !.source = key[1], !.idInSource = key[2],
                        !.record = record, !.parentRowID = parent, !.ignore = ignore,
                        !.complete = complete])

\* add_to_process(idInSource, idField, harvest_basis=basis) of the harvester of
\* source; the four reads of base.py:81-119 return any current value of the field
DoAddToProcess(source, idInSource, idField, basis) ==
    \E typeValue \in CurrentValues(metadata, source, idInSource, "dc.type"),
       doi \in CurrentValues(metadata, source, idInSource, "dc.identifier.doi"),
       title \in CurrentValues(metadata, source, idInSource, "dc.title"),
       dateIssued \in CurrentValues(metadata, source, idInSource, "dc.date.issued") :
      Step(AddToProcess(metadata, Now, source, idInSource, idField, basis, typeValue,
                        doi, title, dateIssued),
           [NoCall EXCEPT !.op = "add_to_process", !.source = source,
                          !.idInSource = idInSource, !.field = idField,
                          !.basis = basis])

\* save_source_data(source, idInSource, data, format)
DoSaveSourceData(key, data, format) ==
    LET res == SaveSourceData(sourceData, Now, key[1], key[2], data, format)
        call == [NoCall EXCEPT !.op = "save_source_data", !.source = key[1],
                               !.idInSource = key[2], !.data = data, !.format = format]
        tick == IF res.sd = sourceData THEN clock ELSE clock + 1
    IN  /\ tick <= MaxClock
        /\ sourceData' = res.sd
        /\ clock' = tick
        /\ last' = [call EXCEPT !.pre = metadata, !.preSourceData = sourceData,
                                !.status = res.recordType,
                                !.repeated = (call = Arguments(last)),
                                !.prevStatus = IF call = Arguments(last)
                                               THEN last.status ELSE ""]
        /\ UNCHANGED <<metadata, procs, harvest, mapper, run>>

\* The same calls within a bound of their own on the writing calls.  admitted
\* keeps the <<source, idInSource, id-field>> of every call of add_to_process
\* that returned 'inProcess' so far, issued the identities these calls returned,
\* in their order.
Admitted(res, call) ==
    IF call.op = "add_to_process" /\ res.status = "inProcess"
    THEN last.admitted \cup {<<call.source, call.idInSource, call.field>>}
    ELSE last.admitted

Issued(res, call) ==
    IF call.op = "add_to_process" /\ res.status = "inProcess"
    THEN Append(last.issued, res.idInIRTS)
    ELSE last.issued

StepWithin(bound, res, call) ==
    /\ Tick(res.md) <= bound
    /\ metadata' = res.md
    /\ clock' = Tick(res.md)
    /\ UNCHANGED <<sourceData, procs, harvest, mapper, run>>
    /\ last' = [call EXCEPT !.pre = metadata, !.preSourceData = sourceData,
                    !.status = IF call.op = "save_values" THEN "" ELSE res.status,
                    !.report = IF call.op = "save_values" THEN res.report ELSE <<>>,
                    !.idInIRTS = IF call.op = "add_to_process" THEN res.idInIRTS
                                 ELSE <<>>,
                    !.repeated = (call = Arguments(last)),
                    !.prevStatus = IF call = Arguments(last) THEN last.status ELSE "",
                    !.prevReport = IF call = Arguments(last) THEN last.report ELSE <<>>,
                    !.admitted = Admitted(res, call),
                    !.issued = Issued(res, call)]

DoSaveValuesWithin(bound, key, record, parent, ignore, complete) ==
    StepWithin(bound,
         SaveValues(metadata, Now, key[1], key[2], record, parent, ignore, complete),
         [NoCall EXCEPT !.op = "save_values", !.source = key[1], !.idInSource = key[2],
                        !.record = record, !.parentRowID = parent, !.ignore = ignore,
                        !.complete = complete])

DoAddToProcessWithin(bound, source, idInSource, idField, basis) ==
    \E typeValue \in CurrentValues(metadata, source, idInSource, "dc.type"),
       doi \in CurrentValues(metadata, source, idInSource, "dc.identifier.doi"),
       title \in CurrentValues(metadata, source, idInSource, "dc.title"),
       dateIssued \in CurrentValues(metadata, source, idInSource, "dc.date.issued") :
      StepWithin(bound,
           AddToProcess(metadata, Now, source, idInSource, idField, basis, typeValue,
                        doi, title, dateIssued),
           [NoCall EXCEPT !.op = "add_to_process", !.source = source,
                          !.idInSource = idInSource, !.field = idField,
                          !.basis = basis])

----------------------------------------------------------------------------
(* The calls, statement by statement.  Every statement commits on its own  *)
(* (database.py:73-86), so the statements of two processes interleave and  *)
(* an error leaves what the statements before it wrote.  A process p runs  *)
(* one call at a time; procs[p] holds the locals of the call.  raced and   *)
(* overwrote record what happened: a read made while another process was  *)
(* between its read and its last write, and an UPDATE of a row whose       *)
(* replacedByRowID was set already.                                        *)

MaxCalls == 3

Returned(p) == procs[p].pc \in {"idle", "done", "failed"}

\* q has read the table and has statements to write yet
Writing(q) == procs[q].pc \in {"insert", "update", "cascade", "save"}

\* the read of p overlaps the call of another process
Overlaps(p) == \E q \in Procs \ {p} : Writing(q)

\* the locals after a read of p: every process of the overlap is marked
AfterRead(p, me) ==
    [q \in Procs |->
        IF q = p THEN [me EXCEPT !.raced = me.raced \/ Overlaps(p)]
        ELSE [procs[q] EXCEPT !.raced = procs[q].raced \/ Writing(q)]]

\* a process starts a call: datetime.now() moves on
Begin(p, call) ==
    /\ Returned(p)
    /\ clock < MaxCalls
    /\ clock' = clock + 1
    /\ procs' = [procs EXCEPT ![p] = [call EXCEPT !.pre = metadata,
                                                  !.raced = procs[p].raced,
                                                  !.overwrote = procs[p].overwrote]]
    /\ UNCHANGED <<metadata, sourceData, last, harvest, mapper, run>>

\* save_value(source, idInSource, field, 0, value, None)
BeginSaveValue(p, key, field, value) ==
    Begin(p, [Idle EXCEPT !.pc = "select", !.op = "save_value", !.source = key[1],
                          !.idInSource = key[2], !.field = field, !.value = value])

\* save_values(source, idInSource, {field: [{'value': value}]}, None, None, True)
BeginSaveValues(p, key, field, value) ==
    Begin(p, [Idle EXCEPT !.pc = "select", !.op = "save_values", !.source = key[1],
                          !.idInSource = key[2], !.field = field, !.value = value])

\* add_to_process(idInSource, idField) of the harvester of source
BeginAddToProcess(p, source, idInSource, idField) ==
    Begin(p, [Idle EXCEPT !.pc = "check", !.op = "add_to_process", !.source = source,
                          !.idInSource = idInSource, !.field = idField])

\* where a call goes on after save_value: save_values prunes (metadata.py:235-248)
AfterSaveValue(me) == IF me.op = "save_values" THEN "prunePlaces" ELSE "done"

\* metadata.py:142: what the SELECT found decides; e is the row found, NULL if none
Selected(me, e) ==
    IF e = NULL THEN [me EXCEPT !.existing = NULL, !.pc = "insert"]
    ELSE IF metadata[e].value # NormalizeValue(me.value)
    THEN [me EXCEPT !.existing = e, !.pc = "insert"]
    ELSE [me EXCEPT !.existing = e, !.pc = AfterSaveValue(me), !.status = "unchanged"]

\* metadata.py:112-128: the SELECT; of several current rows it returns any first
Select(p) ==
    /\ procs[p].pc = "select"
    /\ LET me == procs[p]
           found == {i \in RowIDs(metadata) :
                        IsCurrentAt(metadata[i], me.source, me.idInSource,
                                    me.parentRowID, me.field, me.place)}
       IN  \E e \in (IF found = {} THEN {NULL} ELSE found) :
               procs' = AfterRead(p, Selected(me, e))
    /\ UNCHANGED <<metadata, sourceData, clock, last, harvest, mapper, run>>

\* metadata.py:130-141 and 145-152: the INSERT
InsertRow(p) ==
    /\ procs[p].pc = "insert"
    /\ LET me == procs[p] IN
       /\ metadata' = Insert(metadata, me.source, me.idInSource, me.parentRowID,
                             me.field, me.place, NormalizeValue(me.value), clock)
       /\ procs' = [procs EXCEPT ![p] =
             IF me.existing = NULL
             THEN [me EXCEPT !.newRowID = Len(metadata) + 1, !.status = "new",
                             !.pc = AfterSaveValue(me)]
             ELSE [me EXCEPT !.newRowID = Len(metadata) + 1, !.status = "updated",
                             !.pc = "update"]]
    /\ UNCHANGED <<sourceData, clock, last, harvest, mapper, run>>

\* metadata.py:154-158: the UPDATE of the row the SELECT found
UpdateOld(p) ==
    /\ procs[p].pc = "update"
    /\ LET me == procs[p] IN
       /\ metadata' = Update(metadata, me.existing, clock, me.newRowID)
       /\ procs' = [procs EXCEPT ![p] =
             [me EXCEPT !.pc = "cascade",
                        !.overwrote = me.overwrote
                            \/ metadata[me.existing].replacedByRowID # NULL]]
    /\ UNCHANGED <<sourceData, clock, last, harvest, mapper, run>>

\* metadata.py:161: the children of the old row
Cascade(p) ==
    /\ procs[p].pc = "cascade"
    /\ LET me == procs[p] IN
       /\ metadata' = MarkExtraMetadataAsDeleted(metadata, me.source, me.idInSource,
                                                 me.existing, "", NULL, {}, clock)
       /\ procs' = [procs EXCEPT ![p] = [me EXCEPT !.pc = AfterSaveValue(me)]]
    /\ UNCHANGED <<sourceData, clock, last, harvest, mapper, run>>

\* metadata.py:235-239: last_place = 0 for the one value of the record
PrunePlaces(p) ==
    /\ procs[p].pc = "prunePlaces"
    /\ LET me == procs[p] IN
       /\ metadata' = MarkExtraMetadataAsDeleted(metadata, me.source, me.idInSource,
                                                 me.parentRowID, me.field, 0, {}, clock)
       /\ procs' = [procs EXCEPT ![p] = [me EXCEPT !.pc = "pruneFields"]]
    /\ UNCHANGED <<sourceData, clock, last, harvest, mapper, run>>

\* metadata.py:242-248
PruneFields(p) ==
    /\ procs[p].pc = "pruneFields"
    /\ LET me == procs[p] IN
       /\ metadata' = MarkExtraMetadataAsDeleted(metadata, me.source, me.idInSource,
                                                 me.parentRowID, "", NULL, {me.field},
                                                 clock)
       /\ procs' = [procs EXCEPT ![p] = [me EXCEPT !.pc = "done"]]
    /\ UNCHANGED <<sourceData, clock, last, harvest, mapper, run>>

\* a statement of the call raises: cursor() rolls that statement back and raises
\* again (database.py:80-84); nothing takes back the statements before it
StorageError(p) ==
    /\ procs[p].pc \in {"select", "insert", "update", "cascade", "prunePlaces",
                        "pruneFields"}
    /\ procs' = [procs EXCEPT ![p] = [procs[p] EXCEPT !.pc = "failed"]]
    /\ UNCHANGED <<metadata, sourceData, clock, last, harvest, mapper, run>>

\* base.py:81-173: the reads and the lookups of add_to_process
Check(p) ==
    /\ procs[p].pc = "check"
    /\ LET me == procs[p] IN
       \E typeValue \in CurrentValues(metadata, me.source, me.idInSource, "dc.type"),
          doi \in CurrentValues(metadata, me.source, me.idInSource,
                                "dc.identifier.doi"),
          title \in CurrentValues(metadata, me.source, me.idInSource, "dc.title") :
         procs' = [procs EXCEPT ![p] =
            IF AddToProcessFlag(metadata, me.source, me.idInSource, me.field,
                                typeValue, doi, title)
            THEN [me EXCEPT !.pc = "scan"]
            ELSE [me EXCEPT !.pc = "done", !.status = "existing"]]
    /\ UNCHANGED <<metadata, sourceData, clock, last, harvest, mapper, run>>

\* base.py:177: _generate_new_id reads the maximum
Scan(p) ==
    /\ procs[p].pc = "scan"
    /\ procs' = AfterRead(p, [procs[p] EXCEPT
                                 !.idInIRTS = GenerateNewId(metadata, procs[p].source),
                                 !.pc = "save"])
    /\ UNCHANGED <<metadata, sourceData, clock, last, harvest, mapper, run>>

\* base.py:180-197: the rows of the tracking record (the item has no metadata of
\* its own here: type, title, date and DOI are None)
InsertEntry(p) ==
    /\ procs[p].pc = "save"
    /\ LET me == procs[p] IN
       /\ metadata' = SaveIrtsEntry(metadata, clock, me.source, me.idInSource,
                                    me.field, None, me.idInIRTS, None, None, None,
                                    None)
       /\ procs' = [procs EXCEPT ![p] = [me EXCEPT !.pc = "done",
                                                   !.status = "inProcess"]]
    /\ UNCHANGED <<sourceData, clock, last, harvest, mapper, run>>

----------------------------------------------------------------------------
(* The inputs *)

A == <<"a">>
B == <<"b">>
PaddedA == <<" ", "a", " ">>
Blank == <<" ">>
Id7 == <<"7">>
PaddedId7 == <<" ", "7">>
IdR == <<"r">>
Basis == <<"n", "a", "m", "e">>

Arxiv7 == <<arxiv, Id7>>
RepositoryR == <<repository, IdR>>

Affiliation(v) == <<Item("local.affiliation", List(<<Entry(v)>>))>>
AffiliationAndOrcid ==
    <<Item("local.affiliation", List(<<Entry(A)>>)),
      Item("local.orcid", List(<<Entry(B)>>))>>

----------------------------------------------------------------------------
(* Spec: the harvest of arXiv items.  Records of an item and of the        *)
(* repository are saved, values are saved one by one, items are admitted.  *)

ItemRecords ==
    { <<>>,
      <<Item("dc.title", List(<<Entry(A)>>)), Item("dc.type", List(<<Entry(B)>>))>>,
      <<Item("dc.title", List(<<Entry(B)>>))>>,
      <<Item("dc.title", List(<<Entry(A), Entry(B)>>))>>,
      <<Item("dc.contributor.author", List(<<EntryWithChildren(A, Affiliation(A))>>))>>,
      <<Item("dc.contributor.author", List(<<Entry(B)>>))>> }

RepositoryRecords ==
    { <<Item("dc.identifier.arxivid", List(<<Entry(Id7)>>))>>,
      <<Item("dc.title", List(<<Entry(A)>>)), Item("dc.type", List(<<Entry(B)>>))>> }

SaveItem ==
    \E record \in ItemRecords, complete \in BOOLEAN :
        DoSaveValues(Arxiv7, record, NULL, {}, complete)

SaveRepositoryItem ==
    \E record \in RepositoryRecords : DoSaveValues(RepositoryR, record, NULL, {}, TRUE)

SaveItemValue ==
    \E place \in {0, 1}, value \in {A, B} :
        DoSaveValue(Arxiv7, "dc.title", place, value, NULL)

AddItemToProcess ==
    \E idInSource \in {Id7, PaddedId7},
       idField \in {"dc.identifier.arxivid", "dc.identifier.doi"},
       basis \in {None, Basis} :
        DoAddToProcess(arxiv, idInSource, idField, basis)

Next ==
    \/ SaveItem
    \/ SaveRepositoryItem
    \/ SaveItemValue
    \/ AddItemToProcess

Spec == Init /\ [][Next]_vars

----------------------------------------------------------------------------
(* SpecRecord: records without children are saved for one item, at the top *)
(* level and under a row of the item, complete and not, and a record of    *)
(* another item is saved beside them.                                      *)

Id8 == <<"8">>
Arxiv8 == <<arxiv, Id8>>

FlatRecords ==
    { <<>>,
      <<Item("dc.title", List(<<Entry(A)>>))>>,
      <<Item("dc.title", List(<<Entry(A), Entry(B), Entry(A)>>))>>,
      <<Item("dc.title", List(<<Entry(B)>>)), Item("dc.type", List(<<Entry(A)>>))>>,
      <<Item("dc.type", List(<<Entry(B), Entry(B)>>))>>,
      <<Item("dc.title", List(<<Entry(PaddedA)>>))>>,
      <<Item("dc.title", List(<<EmptyEntry, Entry(B)>>))>>,
      <<Item("dc.title", List(<<>>))>>,
      <<Item("dc.title", FlatStr(B)), Item("dc.type", Single(Entry(Blank)))>> }

\* <<complete_record, existing_fields_to_ignore>>
Modes == {<<FALSE, {}>>, <<TRUE, {}>>, <<TRUE, {"dc.type"}>>}

SaveRecord ==
    \E record \in FlatRecords, mode \in Modes :
        DoSaveValues(Arxiv7, record, NULL, mode[2], mode[1])

SaveRecordUnder ==
    \E parent \in Parents(metadata, Arxiv7), complete \in BOOLEAN,
       record \in {<<>>, <<Item("dc.type", List(<<Entry(A)>>))>>} :
        DoSaveValues(Arxiv7, record, parent, {}, complete)

SaveOtherRecord ==
    DoSaveValues(Arxiv8, <<Item("dc.title", List(<<Entry(A), Entry(B)>>))>>, NULL, {},
                 TRUE)

NextRecord ==
    \/ SaveRecord
    \/ SaveRecordUnder
    \/ SaveOtherRecord

SpecRecord == Init /\ [][NextRecord]_vars

----------------------------------------------------------------------------
(* SpecTree: records with children are saved for one item, values are      *)
(* saved one by one at the top level and under a row.                      *)

TreeRecords ==
    { <<Item("dc.contributor.author",
             List(<<EntryWithChildren(A, AffiliationAndOrcid)>>))>>,
      <<Item("dc.contributor.author", List(<<EntryWithChildren(A, Affiliation(B))>>))>>,
      <<Item("dc.contributor.author", List(<<EntryWithChildren(B, Affiliation(A))>>))>>,
      <<Item("dc.contributor.author",
             List(<<Entry(B), EntryWithChildren(A, Affiliation(A))>>))>>,
      <<Item("dc.contributor.author", List(<<Entry(A)>>))>>,
      <<Item("dc.contributor.author", List(<<EntryWithChildren(A, <<>>)>>))>>,
      <<Item("dc.title", List(<<Entry(A)>>))>> }

SaveTree ==
    \E record \in TreeRecords, complete \in BOOLEAN :
        DoSaveValues(Arxiv7, record, NULL, {}, complete)

SaveChildRecord ==
    \E parent \in Parents(metadata, Arxiv7), complete \in BOOLEAN,
       record \in {<<>>, Affiliation(A)} :
        DoSaveValues(Arxiv7, record, parent, {}, complete)

SaveTopValue ==
    \E place \in {0, 1}, value \in {A, B, PaddedA, PyTrue, None} :
        DoSaveValue(Arxiv7, "dc.contributor.author", place, value, NULL)

SaveChildValue ==
    \E parent \in Parents(metadata, Arxiv7), value \in {A, B} :
        DoSaveValue(Arxiv7, "local.affiliation", 0, value, parent)

NextTree ==
    \/ SaveTree
    \/ SaveChildRecord
    \/ SaveTopValue
    \/ SaveChildValue

SpecTree == Init /\ [][NextTree]_vars

----------------------------------------------------------------------------
(* SpecAdmit: items of arXiv and of Crossref are harvested and admitted    *)
(* beside records of the repository.                                       *)

Doi == <<"d">>

\* the metadata of a harvested arXiv item
HarvestedRecords ==
    { <<Item("dc.identifier.doi", List(<<Entry(Doi)>>))>>,
      <<Item("dc.title", List(<<Entry(A)>>)), Item("dc.type", List(<<Entry(B)>>))>> }

\* the records of the repository
IngestedRecords ==
    { <<Item("dc.identifier.arxivid", List(<<Entry(Id7)>>))>>,
      <<Item("dc.identifier.doi", List(<<Entry(Doi)>>))>> }

SaveHarvested ==
    \E idInSource \in {Id7, Id8}, record \in HarvestedRecords :
        DoSaveValues(<<arxiv, idInSource>>, record, NULL, {}, TRUE)

SaveIngested ==
    \E record \in IngestedRecords : DoSaveValues(RepositoryR, record, NULL, {}, TRUE)

AdmitArxiv ==
    \E idInSource \in {Id7, Id8} :
        DoAddToProcess(arxiv, idInSource, "dc.identifier.arxivid", None)

AdmitCrossref == DoAddToProcess(crossref, Doi, "dc.identifier.doi", Basis)

NextAdmit ==
    \/ SaveHarvested
    \/ SaveIngested
    \/ AdmitArxiv
    \/ AdmitCrossref

SpecAdmit == Init /\ [][NextAdmit]_vars

----------------------------------------------------------------------------
(* SpecRace: two processes run save_value calls for one key and            *)
(* add_to_process calls for two items of one source, statement by          *)
(* statement, in any interleaving.                                         *)

C == <<"c">>

StartSaveValue == \E p \in Procs, value \in {A, B, C} : BeginSaveValue(p, Arxiv7, "dc.title", value)

StartAddToProcess == \E p \in Procs, idInSource \in {Id7, Id8} : BeginAddToProcess(p, arxiv, idInSource, "dc.identifier.arxivid")

NextRace ==
    \/ StartSaveValue
    \/ StartAddToProcess
    \/ \E p \in Procs : Select(p)
    \/ \E p \in Procs : InsertRow(p)
    \/ \E p \in Procs : UpdateOld(p)
    \/ \E p \in Procs : Cascade(p)
    \/ \E p \in Procs : Check(p)
    \/ \E p \in Procs : Scan(p)
    \/ \E p \in Procs : InsertEntry(p)

SpecRace == Init /\ [][NextRace]_vars

----------------------------------------------------------------------------
(* SpecFail: one process runs top-level save_values calls statement by     *)
(* statement, and a statement may raise.                                   *)

StartSaveValues == \E value \in {A, B, C} : BeginSaveValues(1, Arxiv7, "dc.title", value)

NextFail ==
    \/ StartSaveValues
    \/ Select(1)
    \/ InsertRow(1)
    \/ UpdateOld(1)
    \/ Cascade(1)
    \/ PrunePlaces(1)
    \/ PruneFields(1)
    \/ StorageError(1)

SpecFail == Init /\ [][NextFail]_vars

----------------------------------------------------------------------------
(* SpecSource: the payloads of two items are saved, and metadata of one of *)
(* them is saved by record and by value and the item is admitted.          *)

SourceRecords ==
    { <<Item("dc.contributor.author", List(<<EntryWithChildren(A, Affiliation(A))>>))>>,
      <<Item("dc.contributor.author", List(<<EntryWithChildren(B, Affiliation(A))>>))>>,
      <<Item("dc.title", List(<<Entry(A), Entry(B)>>))>>,
      <<Item("dc.title", List(<<Entry(B)>>))>> }

SaveSource ==
    \E key \in {Arxiv7, Arxiv8}, data \in {A, B}, format \in {"XML", "JSON"} :
        DoSaveSourceData(key, data, format)

SaveSourceRecord ==
    \E record \in SourceRecords, complete \in BOOLEAN :
        DoSaveValues(Arxiv7, record, NULL, {}, complete)

SaveSourceValue ==
    \E value \in {A, B} : DoSaveValue(Arxiv7, "dc.contributor.author", 0, value, NULL)

AdmitSource == DoAddToProcess(arxiv, Id7, "dc.identifier.arxivid", Basis)

NextSource ==
    \/ SaveSource
    \/ SaveSourceRecord
    \/ SaveSourceValue
    \/ AdmitSource

SpecSource == Init /\ [][NextSource]_vars

----------------------------------------------------------------------------
(* SpecHarvest: harvest_source('arxiv', ...) (harvest.py:75-121) runs the  *)
(* loop over the entries of the arXiv response (arxiv.py:113-141).  An     *)
(* entry is its arXiv id, its title and its authors; the title stands for  *)
(* the XML too.  pre and preSourceData are the tables before the last pass. *)

Preprint == <<"P", "r", "e", "p", "r", "i", "n", "t">>

MaxItems == 3

\* the entries: the later version of an item has another title and one author less
Entries ==
    { [id |-> idInSource, title |-> A, authors |-> <<Entry(A), Entry(B)>>] :
          idInSource \in {Id7, Id8} }
    \cup { [id |-> idInSource, title |-> B, authors |-> <<Entry(B)>>] :
              idInSource \in {Id7, Id8} }

EntryLists == {<<e>> : e \in Entries} \cup {<<e, f>> : e, f \in Entries}

\* arxiv.py:207-233: the record process_record builds of an entry
EntryRecord(entry) ==
    <<Item("dc.type", List(<<Entry(Preprint)>>)),
      Item("dc.title", List(<<Entry(entry.title)>>)),
      Item("dc.contributor.author", List(entry.authors))>>

\* process_record (arxiv.py:182-238): the payload, then the metadata
ProcessRecord(sd, md, now, source, entry) ==
    [sd |-> SaveSourceData(sd, now, source, entry.id, entry.title, "XML").sd,
     md |-> SaveValues(md, now, source, entry.id, EntryRecord(entry), NULL, {},
                       TRUE).md]

\* harvest_source calls harvester.harvest (harvest.py:101-105)
StartHarvest ==
    /\ harvest.pc \in {"idle", "returned"}
    /\ \E items \in EntryLists :
          harvest' = [NoHarvest EXCEPT !.pc = "running", !.source = arxiv,
                                       !.items = items, !.pre = metadata,
                                       !.preSourceData = sourceData]
    /\ UNCHANGED <<metadata, sourceData, clock, last, procs, mapper, run>>

\* arxiv.py:131-137 after process_record returned rec
AddEntryToProcess(rec, entry) ==
    \E typeValue \in CurrentValues(rec.md, harvest.source, entry.id, "dc.type"),
       doi \in CurrentValues(rec.md, harvest.source, entry.id, "dc.identifier.doi"),
       title \in CurrentValues(rec.md, harvest.source, entry.id, "dc.title"),
       dateIssued \in CurrentValues(rec.md, harvest.source, entry.id,
                                    "dc.date.issued") :
      /\ metadata' = AddToProcess(rec.md, Now, harvest.source, entry.id,
                                  "dc.identifier.arxivid", Basis, typeValue, doi,
                                  title, dateIssued).md
      /\ sourceData' = rec.sd

\* one pass of the loop body (arxiv.py:118-141)
HarvestItem ==
    /\ harvest.pc = "running" /\ harvest.index <= Len(harvest.items)
    /\ clock < MaxItems
    /\ AddEntryToProcess(ProcessRecord(sourceData, metadata, Now, harvest.source,
                                       harvest.items[harvest.index]),
                         harvest.items[harvest.index])
    /\ clock' = clock + 1
    /\ harvest' = [harvest EXCEPT !.index = @ + 1,
                                  !.processed = @ \cup {harvest.index},
                                  !.pre = metadata, !.preSourceData = sourceData]
    /\ UNCHANGED <<last, procs, mapper, run>>

\* what process_record wrote before the call named point raised
Interrupted(rec, point) ==
    /\ sourceData' = IF point = "save_source_data" THEN sourceData ELSE rec.sd
    /\ metadata' = IF point = "add_to_process" THEN rec.md ELSE metadata

\* a statement of the loop body raises a storage error in save_source_data, in
\* save_values or in add_to_process.  The loop catches etree.XMLSyntaxError alone
\* (arxiv.py:143), so the error leaves the loop and harvest(), and harvest_source
\* returns its error summary (harvest.py:116-121).
HarvestItemFails ==
    /\ harvest.pc = "running" /\ harvest.index <= Len(harvest.items)
    /\ clock < MaxItems
    /\ \E point \in {"save_source_data", "save_values", "add_to_process"} :
          Interrupted(ProcessRecord(sourceData, metadata, Now, harvest.source,
                                    harvest.items[harvest.index]), point)
    /\ clock' = clock + 1
    /\ harvest' = [harvest EXCEPT !.pc = "returned", !.failed = {harvest.index},
                                  !.pre = metadata, !.preSourceData = sourceData]
    /\ UNCHANGED <<last, procs, mapper, run>>

\* the loop is through: harvest() returns (harvest.py:105-114)
FinishHarvest ==
    /\ harvest.pc = "running" /\ harvest.index > Len(harvest.items)
    /\ harvest' = [harvest EXCEPT !.pc = "returned"]
    /\ UNCHANGED <<metadata, sourceData, clock, last, procs, mapper, run>>

NextHarvest ==
    \/ StartHarvest
    \/ HarvestItem
    \/ HarvestItemFails
    \/ FinishHarvest

SpecHarvest == Init /\ [][NextHarvest]_vars

----------------------------------------------------------------------------
(* SpecLookup: the lookups of add_to_process over items with a title and a *)
(* type, records of the repository and the tracking records admitted       *)
(* before.                                                                 *)

MaxWrites == 4

\* the first identity _generate_new_id gives an arXiv item
Tracking1 == arxiv \o <<"_", "1">>

TitledRecords ==
    { <<Item("dc.title", List(<<Entry(A)>>))>>,
      <<Item("dc.title", List(<<Entry(A)>>)), Item("dc.type", List(<<Entry(B)>>))>> }

SaveTitled ==
    \E idInSource \in {Id7, Id8}, record \in TitledRecords :
        DoSaveValuesWithin(MaxWrites, <<arxiv, idInSource>>, record, NULL, {}, TRUE)

\* a record of the repository with a type and no title
SaveTyped ==
    \E idInSource \in {IdR, Tracking1} :
        DoSaveValuesWithin(MaxWrites, <<repository, idInSource>>,
                           <<Item("dc.type", List(<<Entry(B)>>))>>, NULL, {}, TRUE)

AdmitTitled ==
    \E idInSource \in {Id7, Id8} :
        DoAddToProcessWithin(MaxWrites, arxiv, idInSource, "dc.identifier.arxivid", None)

NextLookup ==
    \/ SaveTitled
    \/ SaveTyped
    \/ AdmitTitled

SpecLookup == Init /\ [][NextLookup]_vars

----------------------------------------------------------------------------
(* SpecPointer: items are admitted and presented again, under either       *)
(* id-field, beside the saving of their metadata.                          *)

SavePresented ==
    \E idInSource \in {Id7, Id8}, record \in TitledRecords :
        DoSaveValuesWithin(MaxClock, <<arxiv, idInSource>>, record, NULL, {}, TRUE)

AdmitPresented ==
    \E idInSource \in {Id7, Id8, PaddedId7},
       idField \in {"dc.identifier.arxivid", "dc.identifier.doi"},
       basis \in {None, Basis} :
        DoAddToProcessWithin(MaxClock, arxiv, idInSource, idField, basis)

NextPointer ==
    \/ SavePresented
    \/ AdmitPresented

SpecPointer == Init /\ [][NextPointer]_vars

----------------------------------------------------------------------------
(* SpecValue: save_value on one key with strings that differ by their      *)
(* surrounding whitespace, with booleans and with the strings a boolean is *)
(* stored as.                                                              *)

PaddedB == <<" ", "b">>
TrueStr == <<"T", "R", "U", "E">>
FalseStr == <<"F", "A", "L", "S", "E">>

SaveOneValue ==
    \E value \in {A, PaddedA, B, PaddedB, PyTrue, PyFalse, TrueStr, FalseStr} :
        DoSaveValue(Arxiv7, "dc.title", 0, value, NULL)

SaveNextValue ==
    \E value \in {A, PaddedA, PyTrue} : DoSaveValue(Arxiv7, "dc.title", 1, value, NULL)

NextValue ==
    \/ SaveOneValue
    \/ SaveNextValue

SpecValue == Init /\ [][NextValue]_vars

----------------------------------------------------------------------------
(* SpecSkip: save_values with lists that hold entries without a value.     *)

SkipRecords ==
    { <<Item("dc.title", List(<<EmptyEntry, Entry(B)>>))>>,
      <<Item("dc.title", List(<<Entry(None), Entry(A)>>))>>,
      <<Item("dc.title", List(<<Entry(A), Entry(Blank), Entry(B)>>))>>,
      <<Item("dc.title", List(<<Entry(B), Entry(A)>>))>>,
      <<Item("dc.title", List(<<Entry(A)>>)), Item("dc.type", Single(Entry(Blank)))>>,
      <<Item("dc.title", FlatStr(Blank)), Item("dc.type", FlatStr(A))>>,
      <<Item("dc.title", Single(EmptyEntry)), Item("dc.type", Single(Entry(B)))>> }

SaveSkipping ==
    \E record \in SkipRecords, complete \in BOOLEAN :
        DoSaveValues(Arxiv7, record, NULL, {}, complete)

SaveSkippedPlace ==
    \E place \in {0, 1}, value \in {A, B} :
        DoSaveValue(Arxiv7, "dc.title", place, value, NULL)

NextSkip ==
    \/ SaveSkipping
    \/ SaveSkippedPlace

SpecSkip == Init /\ [][NextSkip]_vars

----------------------------------------------------------------------------
(* SpecStale: items are admitted beside a record of the repository that is *)
(* rewritten and a tracking record that is rewritten by its review, so     *)
(* that rows the lookups would match are soft-deleted.                     *)

Done == <<"d", "o", "n", "e">>

\* the record of the repository, with the title and type of an item and without
RepositoryTitled ==
    { <<Item("dc.title", List(<<Entry(A)>>)), Item("dc.type", List(<<Entry(B)>>))>>,
      <<Item("dc.title", List(<<Entry(B)>>))>> }

SaveRepositoryTitled ==
    \E record \in RepositoryTitled :
        DoSaveValuesWithin(MaxWrites, RepositoryR, record, NULL, {}, TRUE)

\* the first tracking record is saved again as a complete record of its status
ReviewTracked ==
    DoSaveValuesWithin(MaxWrites, <<irts, Tracking1>>,
                       <<Item("irts.status", List(<<Entry(Done)>>))>>, NULL, {}, TRUE)

NextStale ==
    \/ SaveTitled
    \/ SaveRepositoryTitled
    \/ ReviewTracked
    \/ AdmitTitled

SpecStale == Init /\ [][NextStale]_vars

----------------------------------------------------------------------------
(* FieldMapper.map_field (core/mapper.py:23-62).  mapper.mappings is the   *)
(* mappings table, a set of rows; mapper.cache is _mapping_cache, a set of *)
(* [key, value]; mapper.call is the last call of map_field with the table  *)
(* it saw.  The rows of the table are put there from outside the program.  *)

\* mapper.py:35: f"{source}:{parent_field}:{source_field}"
CacheKey(source, parentField, sourceField) ==
    source \o <<":">> \o parentField \o <<":">> \o sourceField

\* mapper.py:42-48: the rows of the SELECT; query_one returns the first of them
MappingRows(mappings, source, parentField, sourceField) ==
    {m \in mappings : /\ m.source = source
                      /\ m.parentFieldInSource = parentField
                      /\ m.sourceField = sourceField}

\* '.' in source_field
HasDot(s) == \E n \in 1..Len(s) : s[n] = "."

\* the source as namespace whatever the field is
MapResultsAlwaysNamespaced(mappings, source, sourceField, parentField) ==
    IF MappingRows(mappings, source, parentField, sourceField) # {}
    THEN {m.standardField : m \in MappingRows(mappings, source, parentField, sourceField)}
    ELSE {source \o <<".">> \o sourceField}

\* mapper.py:50-57: what map_field computes when the cache has no entry
MapResults(mappings, source, sourceField, parentField) ==
    IF MappingRows(mappings, source, parentField, sourceField) # {}
    THEN {m.standardField : m \in MappingRows(mappings, source, parentField, sourceField)}
    ELSE IF ~HasDot(sourceField)
    THEN {source \o <<".">> \o sourceField}
    ELSE {sourceField}

\* mapper.py:38-39: the entry of the cache, if any
CachedResults(cache, key) == {c.value : c \in {d \in cache : d.key = key}}

\* map_field(source, source_field, parent_field)
DoMapField(source, sourceField, parentField) ==
    LET key == CacheKey(source, parentField, sourceField)
        hit == CachedResults(mapper.cache, key) # {}
    IN  \E result \in (IF hit THEN CachedResults(mapper.cache, key)
                        ELSE MapResults(mapper.mappings, source, sourceField,
                                        parentField)) :
          /\ mapper' = [mapper EXCEPT
                  !.cache = IF hit THEN @ ELSE @ \cup {[key |-> key, value |-> result]},
                  !.call = [source |-> source, sourceField |-> sourceField,
                            parentField |-> parentField, result |-> result,
                            cached |-> hit, mappings |-> mapper.mappings]]
          /\ UNCHANGED <<metadata, sourceData, clock, last, procs, harvest, run>>

\* the tags of an entry and a field name that has its namespace
Tag == <<"t">>
Namespaced == <<"d", "c", ".", "t">>
ParentTag == <<"p">>
Standard1 == <<"d", "c", ".", "a">>
Standard2 == <<"d", "c", ".", "b">>

\* the rows the mappings table may get
Mappings ==
    { [source |-> arxiv, parentFieldInSource |-> <<>>, sourceField |-> Tag,
       standardField |-> Standard1],
      [source |-> arxiv, parentFieldInSource |-> ParentTag, sourceField |-> Tag,
       standardField |-> Standard2],
      [source |-> arxiv, parentFieldInSource |-> <<>>, sourceField |-> Namespaced,
       standardField |-> Standard2] }

\* arxiv.py:221 and calls with a parent field
MapField ==
    \/ \E sourceField \in {Tag, Namespaced}, parentField \in {<<>>, ParentTag} :
          DoMapField(arxiv, sourceField, parentField)
    \/ DoMapField(crossref, Tag, <<>>)

\* a row is added to the mappings table
AddMapping ==
    /\ \E m \in Mappings \ mapper.mappings :
          mapper' = [mapper EXCEPT !.mappings = @ \cup {m}]
    /\ UNCHANGED <<metadata, sourceData, clock, last, procs, harvest, run>>

\* clear_cache (mapper.py:140-144)
ClearCache ==
    /\ mapper.cache # {}
    /\ mapper' = [mapper EXCEPT !.cache = {}]
    /\ UNCHANGED <<metadata, sourceData, clock, last, procs, harvest, run>>

NextMapper ==
    \/ MapField
    \/ AddMapping
    \/ ClearCache

SpecMapper == Init /\ [][NextMapper]_vars

----------------------------------------------------------------------------
(* Properties *)

Pre == last.pre

IsCurrent(r) == r.deleted = NULL

SameKey(r, q) ==
    /\ r.source = q.source /\ r.idInSource = q.idInSource
    /\ r.parentRowID = q.parentRowID /\ r.field = q.field /\ r.place = q.place

\* the row of the last call's (source, idInSource) under its parent
UnderParent(r) ==
    /\ r.source = last.source /\ r.idInSource = last.idInSource
    /\ r.parentRowID = last.parentRowID

\* C1: after any sequence of save_value, save_values and add_to_process calls, at
\* most one row of a (source, idInSource, parentRowID, field, place) is current.
C1_AtMostOneCurrentRow ==
    \A i, j \in RowIDs(metadata) :
        (IsCurrent(metadata[i]) /\ IsCurrent(metadata[j])
            /\ SameKey(metadata[i], metadata[j])) => i = j

\* a key that has a superseded row and a current row
C1_Witness ==
    \E i, j \in RowIDs(metadata) :
        /\ SameKey(metadata[i], metadata[j])
        /\ metadata[i].replacedByRowID = j
        /\ IsCurrent(metadata[j])

\* C2: a complete save_values call that repeats the call before it changes no
\* row, and reports every value of that call unchanged with the same rowID.
C2_Idempotent ==
    (last.op = "save_values" /\ last.repeated /\ last.complete) =>
        /\ metadata = Pre
        /\ Len(last.report) = Len(last.prevReport)
        /\ \A k \in 1..Len(last.report) :
              last.report[k] = [last.prevReport[k] EXCEPT !.status = "unchanged"]

\* the repeated call follows a call that inserted, superseded and pruned
C2_Witness ==
    /\ last.op = "save_values" /\ last.repeated /\ last.complete
    /\ \E k \in 1..Len(last.prevReport) : last.prevReport[k].status = "updated"
    /\ \E k \in 1..Len(last.prevReport) : last.prevReport[k].status = "new"
    /\ \E i \in RowIDs(metadata) :
          ~IsCurrent(metadata[i]) /\ metadata[i].replacedByRowID = NULL

\* C3: save_value for a key whose current row holds another value inserts one row,
\* the only current row of the key; the old row gets deleted and replacedByRowID =
\* the new rowID; the status is 'updated'; every row other than the old row and
\* its children is left as it was.
C3_Superseded ==
    last.op = "save_value" =>
        \A e \in RowIDs(Pre) :
            ( /\ IsCurrentAt(Pre[e], last.source, last.idInSource, last.parentRowID,
                             last.field, last.place)
              /\ Pre[e].value # NormalizeValue(last.value) ) =>
            /\ Len(metadata) = Len(Pre) + 1
            /\ metadata[Len(Pre) + 1] =
                  [rowID |-> Len(Pre) + 1, source |-> last.source,
                   idInSource |-> last.idInSource, parentRowID |-> last.parentRowID,
                   field |-> last.field, place |-> last.place,
                   value |-> NormalizeValue(last.value), added |-> clock,
                   deleted |-> NULL, replacedByRowID |-> NULL]
            /\ {i \in RowIDs(metadata) :
                    IsCurrentAt(metadata[i], last.source, last.idInSource,
                                last.parentRowID, last.field, last.place)}
                  = {Len(Pre) + 1}
            /\ metadata[e].deleted # NULL
            /\ metadata[e] = [Pre[e] EXCEPT !.deleted = metadata[e].deleted,
                                            !.replacedByRowID = Len(Pre) + 1]
            /\ last.status = "updated"
            /\ last.rowID = Len(Pre) + 1
            /\ \A i \in RowIDs(Pre) \ {e} :
                  Pre[i].parentRowID # e => metadata[i] = Pre[i]

\* a value is superseded while a row beside it and a child of that row stay
C3_Witness ==
    /\ last.op = "save_value" /\ last.status = "updated"
    /\ \E e \in RowIDs(Pre) :
          /\ metadata[e].replacedByRowID = last.rowID
          /\ \E i \in RowIDs(Pre) : Pre[i].parentRowID = e
          /\ \E i \in RowIDs(Pre) :
                i # e /\ Pre[i].parentRowID # e /\ IsCurrent(metadata[i])

\* C4: when a call supersedes a row by a value change, every row that was current
\* with that row as its parent is soft-deleted by the same call, whatever its
\* field and whether or not the call supplied children.
C4_Cascade ==
    \A e \in RowIDs(Pre) :
        (IsCurrent(Pre[e]) /\ metadata[e].replacedByRowID # NULL) =>
            \A c \in RowIDs(Pre) :
                (Pre[c].parentRowID = e /\ IsCurrent(Pre[c])) =>
                    ~IsCurrent(metadata[c])

\* save_value supersedes a row that has current children of two fields
C4_Witness ==
    /\ last.op = "save_value"
    /\ \E e \in RowIDs(Pre) :
          /\ IsCurrent(Pre[e]) /\ metadata[e].replacedByRowID # NULL
          /\ \E c, d \in RowIDs(Pre) :
                /\ Pre[c].parentRowID = e /\ IsCurrent(Pre[c])
                /\ Pre[d].parentRowID = e /\ IsCurrent(Pre[d])
                /\ Pre[c].field # Pre[d].field
                /\ ~IsCurrent(metadata[c]) /\ ~IsCurrent(metadata[d])

\* the rows of a field under the parent of the last call
FieldRows(md, field) ==
    {i \in RowIDs(md) : UnderParent(md[i]) /\ md[i].field = field}

CurrentFieldRows(md, field) == {i \in FieldRows(md, field) : IsCurrent(md[i])}

\* C5: when a field has k current values at the places 0..k-1 and save_values
\* supplies m values for it, 1 <= m < k, then each place 0..m-1 has its current
\* row, every row at a place >= m is soft-deleted, and no row changes its place.
C5_Shrink ==
    last.op = "save_values" =>
        \A n \in 1..Len(last.record) :
            LET field == last.record[n].field
                m == Len(ValuesList(last.record[n].values))
                k == Cardinality(CurrentFieldRows(Pre, field))
            IN  ( /\ {Pre[i].place : i \in CurrentFieldRows(Pre, field)} = 0..(k - 1)
                  /\ 1 <= m /\ m < k ) =>
                /\ \A p \in 0..(m - 1) :
                      Cardinality({i \in CurrentFieldRows(metadata, field) :
                                      metadata[i].place = p}) = 1
                /\ \A i \in FieldRows(metadata, field) :
                      metadata[i].place >= m => ~IsCurrent(metadata[i])
                /\ \A i \in RowIDs(Pre) : metadata[i].place = Pre[i].place

\* three current values, one supplied: place 0 stays, places 1 and 2 are deleted
C5_Witness ==
    /\ last.op = "save_values"
    /\ \E n \in 1..Len(last.record) :
          LET field == last.record[n].field IN
          /\ Len(ValuesList(last.record[n].values)) = 1
          /\ {Pre[i].place : i \in CurrentFieldRows(Pre, field)} = {0, 1, 2}
          /\ {metadata[i].place : i \in CurrentFieldRows(metadata, field)} = {0}
          /\ \E i \in CurrentFieldRows(Pre, field) : metadata[i] = Pre[i]

\* the fields that have current rows under the parent of the last call
CurrentFieldsUnder(md) ==
    {md[i].field : i \in {j \in RowIDs(md) : UnderParent(md[j]) /\ IsCurrent(md[j])}}

\* C6: after a complete save_values call, every field that had current rows under
\* the call's parent and is neither a key of the record nor in the ignore list has
\* no current row under that parent; for every record, the empty one included, and
\* for parent_row_id None as well as a concrete parent.
C6_AbsentFieldsPruned ==
    (last.op = "save_values" /\ last.complete) =>
        \A field \in CurrentFieldsUnder(Pre) :
            field \notin (RecordFields(last.record) \cup last.ignore) =>
                CurrentFieldRows(metadata, field) = {}

\* C7: a save_values call with complete_record = False leaves every current row
\* under the call's parent whose field is not a key of the record as it was.
C7_PartialKeepsAbsentFields ==
    (last.op = "save_values" /\ ~last.complete) =>
        \A i \in RowIDs(Pre) :
            ( /\ UnderParent(Pre[i]) /\ IsCurrent(Pre[i])
              /\ Pre[i].field \notin RecordFields(last.record) ) =>
                metadata[i] = Pre[i]

\* a partial call writes one field while the current row of another field stays
C7_Witness ==
    /\ last.op = "save_values" /\ ~last.complete
    /\ metadata # Pre
    /\ last.record # <<>>
    /\ \E i \in RowIDs(Pre) :
          /\ UnderParent(Pre[i]) /\ IsCurrent(Pre[i])
          /\ Pre[i].field \notin RecordFields(last.record)
          /\ IsCurrent(metadata[i])

\* C8 as stated: a complete save_values call never soft-deletes a current row
\* under the call's parent whose field is in existing_fields_to_ignore.
C8_IgnoredNeverDeleted ==
    (last.op = "save_values" /\ last.complete) =>
        \A i \in RowIDs(Pre) :
            ( /\ UnderParent(Pre[i]) /\ IsCurrent(Pre[i])
              /\ Pre[i].field \in last.ignore ) =>
                IsCurrent(metadata[i])

\* C8 amended: a complete save_values call never soft-deletes a current row under
\* the call's parent whose field is in existing_fields_to_ignore and is not a key
\* of the supplied record.
C8_IgnoredAbsentNeverDeleted ==
    (last.op = "save_values" /\ last.complete) =>
        \A i \in RowIDs(Pre) :
            ( /\ UnderParent(Pre[i]) /\ IsCurrent(Pre[i])
              /\ Pre[i].field \in last.ignore
              /\ Pre[i].field \notin RecordFields(last.record) ) =>
                metadata[i] = Pre[i]

\* a complete call prunes an absent field while the row of an ignored absent field
\* stays
C8_Witness ==
    /\ last.op = "save_values" /\ last.complete
    /\ \E i, j \in RowIDs(Pre) :
          /\ UnderParent(Pre[i]) /\ IsCurrent(Pre[i])
          /\ Pre[i].field \in last.ignore
          /\ Pre[i].field \notin RecordFields(last.record)
          /\ IsCurrent(metadata[i])
          /\ UnderParent(Pre[j]) /\ IsCurrent(Pre[j]) /\ ~IsCurrent(metadata[j])
          /\ Pre[j].field \notin RecordFields(last.record)

\* every supplied entry of the record has a non-empty value and no children
AllEntriesSupplied(record) ==
    \A n \in 1..Len(record) :
        LET values == ValuesList(record[n].values) IN
        \A p \in 1..Len(values) : ~Skipped(values[p]) /\ values[p].children = <<>>

\* the (field, index, trimmed value) triples of a record
RecordTriples(record) ==
    UNION {{<<record[n].field, p - 1,
              NormalizeValue(ValuesList(record[n].values)[p].value)>> :
               p \in 1..Len(ValuesList(record[n].values))} : n \in 1..Len(record)}

\* C9: after a complete save_values call whose supplied entries all have non-empty
\* values and no children, the current (field, place, value) triples under the
\* call's parent, without the ignored fields, are the (field, index, trimmed
\* value) triples of the record, whatever the table held before.
C9_Reconciled ==
    (last.op = "save_values" /\ last.complete /\ AllEntriesSupplied(last.record)) =>
        {<<metadata[i].field, metadata[i].place, metadata[i].value>> :
            i \in {j \in RowIDs(metadata) :
                     /\ UnderParent(metadata[j]) /\ IsCurrent(metadata[j])
                     /\ metadata[j].field \notin last.ignore}}
          = {t \in RecordTriples(last.record) : t[1] \notin last.ignore}

\* C10: of two add_to_process calls in a row with the same (source, idInSource,
\* id-field), the first of them admitting the item, the second returns 'existing'
\* with an empty identity and creates no row.
C10_SecondCallExisting ==
    (last.op = "add_to_process" /\ last.repeated /\ last.prevStatus = "inProcess") =>
        /\ last.status = "existing"
        /\ last.idInIRTS = <<>>
        /\ metadata = Pre

\* s is a number: digits and nothing else
IsNumber(s) == s # <<>> /\ \A k \in 1..Len(s) : s[k] \in DOMAIN Digit

\* the numbers n of the idInSource '{source}_{n}' of the 'irts' rows
TrackingNumbers(md, source) ==
    {CastUnsigned(SubSeq(md[i].idInSource, Len(source) + 2, Len(md[i].idInSource))) :
        i \in {j \in RowIDs(md) :
                 /\ md[j].source = irts
                 /\ Len(md[j].idInSource) > Len(source) + 1
                 /\ SubSeq(md[j].idInSource, 1, Len(source) + 1) = source \o <<"_">>
                 /\ IsNumber(SubSeq(md[j].idInSource, Len(source) + 2,
                                    Len(md[j].idInSource)))}}

\* C11: the identity of an admission is '{source}_{n}', n = 1 when no 'irts' row
\* has an idInSource '{source}_<number>', else one more than the largest number.
C11_NewIdentity ==
    (last.op = "add_to_process" /\ last.status = "inProcess") =>
        LET nums == TrackingNumbers(Pre, last.source)
            n == IF nums = {} THEN 1 ELSE Max(nums) + 1
        IN  last.idInIRTS = last.source \o <<"_">> \o Str(n)

\* a second item of a source is admitted while another source is tracked too
C11_Witness ==
    /\ last.op = "add_to_process" /\ last.status = "inProcess"
    /\ TrackingNumbers(Pre, last.source) # {}
    /\ last.idInIRTS = last.source \o <<"_", "2">>

\* C12: two add_to_process calls for two items of one source can both end
\* admitted under one identity; they do so only when they overlapped, the scan of
\* one reading the maximum before the other had inserted.
C12_DuplicateByRace ==
    \A p, q \in Procs :
        ( /\ p # q
          /\ procs[p].op = "add_to_process" /\ procs[q].op = "add_to_process"
          /\ procs[p].source = procs[q].source
          /\ procs[p].idInSource # procs[q].idInSource
          /\ procs[p].status = "inProcess" /\ procs[q].status = "inProcess"
          /\ procs[p].idInIRTS = procs[q].idInIRTS ) =>
            procs[p].raced /\ procs[q].raced

\* both calls have returned 'inProcess' with the same identity for two items
C12_Witness ==
    /\ procs[1].op = "add_to_process" /\ procs[2].op = "add_to_process"
    /\ procs[1].pc = "done" /\ procs[2].pc = "done"
    /\ procs[1].status = "inProcess" /\ procs[2].status = "inProcess"
    /\ procs[1].source = procs[2].source
    /\ procs[1].idInSource # procs[2].idInSource
    /\ procs[1].idInIRTS = procs[2].idInIRTS

\* a key has two current rows
TwoCurrentRows ==
    \E i, j \in RowIDs(metadata) :
        /\ i # j /\ IsCurrent(metadata[i]) /\ IsCurrent(metadata[j])
        /\ SameKey(metadata[i], metadata[j])

\* C13: two rows of one key left current when every call has returned, or a
\* replacedByRowID written over, come about through save_value calls that
\* overlapped, and not otherwise.
C13_BrokenChainByRace ==
    ( \/ TwoCurrentRows /\ \A p \in Procs : Returned(p)
      \/ \E p \in Procs : procs[p].overwrote ) =>
        \E p \in Procs : procs[p].raced

\* two save_value calls with different values for one key have returned: two rows
\* of the key are current and the replacedByRowID of the old row was written twice
C13_Witness ==
    /\ procs[1].op = "save_value" /\ procs[2].op = "save_value"
    /\ procs[1].pc = "done" /\ procs[2].pc = "done"
    /\ procs[1].value # procs[2].value
    /\ procs[1].existing # NULL /\ procs[1].existing = procs[2].existing
    /\ \E p \in Procs : procs[p].overwrote
    /\ IsCurrent(metadata[procs[1].newRowID]) /\ IsCurrent(metadata[procs[2].newRowID])
    /\ SameKey(metadata[procs[1].newRowID], metadata[procs[2].newRowID])

\* C14: when a storage error has interrupted a top-level save_values call, the
\* metadata table is the table before the call.
C14_AllOrNothing ==
    \A p \in Procs :
        (procs[p].op = "save_values" /\ procs[p].pc = "failed") =>
            metadata = procs[p].pre

\* C15: a storage error in one item of a harvest run aborts that item alone: when
\* the run has returned, every item after a failed one has been processed.
C15_ErrorAbortsItemOnly ==
    harvest.pc = "returned" =>
        \A k \in 1..Len(harvest.items) :
            (\E f \in harvest.failed : f < k) => k \in harvest.processed

PreSourceData == last.preSourceData

\* the current rows of the sourceData table sd for the key of the last call
CurrentSourceRows(sd) ==
    {i \in RowIDs(sd) : /\ sd[i].source = last.source
                        /\ sd[i].idInSource = last.idInSource
                        /\ sd[i].deleted = NULL}

\* the call inserted one row, current, with the payload of the call
SourceRowInserted ==
    /\ Len(sourceData) = Len(PreSourceData) + 1
    /\ sourceData[Len(sourceData)] =
          [rowID |-> Len(sourceData), source |-> last.source,
           idInSource |-> last.idInSource, sourceData |-> last.data,
           format |-> last.format, added |-> clock, deleted |-> NULL,
           replacedByRowID |-> NULL]

\* C17: every (source, idInSource) has at most one current sourceData row; a
\* save_source_data call returns 'new' and inserts a row when the key has no
\* current row, returns 'modified', inserts a current row and marks the old one
\* deleted with replacedByRowID = the new rowID when the payload differs, and
\* returns 'unchanged' and changes nothing when the payload is the current one.
C17_SourceDataChain ==
    /\ \A i, j \in RowIDs(sourceData) :
          ( /\ sourceData[i].source = sourceData[j].source
            /\ sourceData[i].idInSource = sourceData[j].idInSource
            /\ sourceData[i].deleted = NULL /\ sourceData[j].deleted = NULL ) => i = j
    /\ last.op = "save_source_data" =>
          IF CurrentSourceRows(PreSourceData) = {}
          THEN /\ last.status = "new"
               /\ SourceRowInserted
               /\ \A i \in RowIDs(PreSourceData) : sourceData[i] = PreSourceData[i]
          ELSE \A e \in CurrentSourceRows(PreSourceData) :
                  IF PreSourceData[e].sourceData # last.data
                  THEN /\ last.status = "modified"
                       /\ SourceRowInserted
                       /\ sourceData[e].deleted # NULL
                       /\ sourceData[e] =
                             [PreSourceData[e] EXCEPT
                                 !.deleted = sourceData[e].deleted,
                                 !.replacedByRowID = Len(sourceData)]
                       /\ \A i \in RowIDs(PreSourceData) \ {e} :
                             sourceData[i] = PreSourceData[i]
                  ELSE /\ last.status = "unchanged"
                       /\ sourceData = PreSourceData

\* a payload is replaced: the old row is superseded, the new row is current
C17_Witness ==
    /\ last.op = "save_source_data" /\ last.status = "modified"
    /\ CurrentSourceRows(sourceData) = {Len(sourceData)}
    /\ \E i \in RowIDs(PreSourceData) :
          /\ PreSourceData[i].deleted = NULL
          /\ sourceData[i].deleted # NULL
          /\ sourceData[i].replacedByRowID = Len(sourceData)

\* C16: after any sequence of save_values and add_to_process calls, the places
\* of the current rows of every (source, idInSource, parentRowID, field) are
\* 0..k-1 for some k >= 0.
C16_PlacesWithoutGap ==
    \A i \in RowIDs(metadata) :
        IsCurrent(metadata[i]) =>
            LET places == {metadata[j].place :
                             j \in {n \in RowIDs(metadata) :
                                      /\ IsCurrent(metadata[n])
                                      /\ metadata[n].source = metadata[i].source
                                      /\ metadata[n].idInSource = metadata[i].idInSource
                                      /\ metadata[n].parentRowID = metadata[i].parentRowID
                                      /\ metadata[n].field = metadata[i].field}}
            IN  places = 0..(Cardinality(places) - 1)

\* every row of the table before is in the table after, with the same columns but
\* deleted and replacedByRowID, and with these too when it was deleted before
RowsKept(before, after) ==
    /\ Len(after) >= Len(before)
    /\ \A i \in RowIDs(before) :
          /\ after[i] = [before[i] EXCEPT !.deleted = after[i].deleted,
                                          !.replacedByRowID = after[i].replacedByRowID]
          /\ before[i].deleted # NULL => after[i] = before[i]

\* C18: no operation removes a metadata or sourceData row or changes its source,
\* idInSource, parentRowID, field, place or value; a row whose deleted is set is
\* not changed by any later operation.
C18_RowsKept ==
    /\ RowsKept(Pre, metadata)
    /\ RowsKept(PreSourceData, sourceData)
    /\ RowsKept(harvest.pre, metadata)
    /\ RowsKept(harvest.preSourceData, sourceData)

\* a pass of the harvest writes both tables and leaves alone a superseded row and
\* a pruned row of metadata and a superseded row of sourceData
C18_Witness ==
    /\ metadata # harvest.pre /\ sourceData # harvest.preSourceData
    /\ \E i, j \in RowIDs(harvest.pre) :
          /\ harvest.pre[i].deleted # NULL /\ harvest.pre[i].replacedByRowID # NULL
          /\ harvest.pre[j].deleted # NULL /\ harvest.pre[j].replacedByRowID = NULL
    /\ \E i \in RowIDs(harvest.preSourceData) : harvest.preSourceData[i].deleted # NULL

\* C19: a row has a replacedByRowID exactly when a value change superseded it, and
\* the replacedByRowID names a later row of the same (source, idInSource,
\* parentRowID, field, place); the rows that place pruning, field pruning and the
\* cascade to children soft-delete keep replacedByRowID NULL.
C19_ReplacedByValueChange ==
    /\ \A i \in RowIDs(metadata) :
          metadata[i].replacedByRowID # NULL =>
              /\ metadata[i].deleted # NULL
              /\ metadata[i].replacedByRowID \in RowIDs(metadata)
              /\ metadata[i].replacedByRowID > i
              /\ SameKey(metadata[metadata[i].replacedByRowID], metadata[i])
              /\ metadata[metadata[i].replacedByRowID].value # metadata[i].value
    /\ \A i \in RowIDs(Pre) :
          (IsCurrent(Pre[i]) /\ ~IsCurrent(metadata[i])) =>
              ( metadata[i].replacedByRowID # NULL
                  <=> \E j \in RowIDs(metadata) \ RowIDs(Pre) :
                          SameKey(metadata[j], Pre[i]) )

\* one call supersedes a row and soft-deletes a child of it
C19_Witness ==
    \E i, c \in RowIDs(Pre) :
        /\ IsCurrent(Pre[i]) /\ IsCurrent(Pre[c])
        /\ metadata[i].replacedByRowID # NULL
        /\ Pre[c].parentRowID = i
        /\ ~IsCurrent(metadata[c]) /\ metadata[c].replacedByRowID = NULL

\* a current row of the field with the value under 'repository' or 'irts'
Tracked(md, field, value) ==
    \E i \in RowIDs(md) :
        /\ IsCurrent(md[i]) /\ md[i].source \in {repository, irts}
        /\ md[i].field = field /\ md[i].value = value

\* the current DOIs of the item of the last call
ItemDois(md) ==
    {md[i].value : i \in {j \in RowIDs(md) :
                            /\ IsCurrent(md[j]) /\ md[j].source = last.source
                            /\ md[j].idInSource = last.idInSource
                            /\ md[j].field = "dc.identifier.doi"}}

\* C20: add_to_process returns 'existing' and allocates no identity when the
\* idInSource is the value of a current row of the id-field under 'repository' or
\* 'irts', and, the id-field not being dc.identifier.doi, when the current DOI of
\* the item is the value of a current dc.identifier.doi row under 'repository' or
\* 'irts'.
C20_KnownItemNotAdmitted ==
    ( /\ last.op = "add_to_process"
      /\ \/ Tracked(Pre, last.field, last.idInSource)
         \/ /\ last.field # "dc.identifier.doi"
            /\ \E doi \in ItemDois(Pre) : Tracked(Pre, "dc.identifier.doi", doi) ) =>
            /\ last.status = "existing"
            /\ last.idInIRTS = <<>>
            /\ metadata = Pre

\* an arXiv item is turned down for its DOI alone, which a tracking record holds
C20_Witness ==
    /\ last.op = "add_to_process" /\ last.status = "existing"
    /\ last.field # "dc.identifier.doi"
    /\ ~Tracked(Pre, last.field, last.idInSource)
    /\ \E doi \in ItemDois(Pre) :
          \E i \in RowIDs(Pre) :
              /\ IsCurrent(Pre[i]) /\ Pre[i].source = irts
              /\ Pre[i].field = "dc.identifier.doi" /\ Pre[i].value = doi

\* the current irts.source row with value source that has a current child
\* irts.idInSource row with value idInSource
PointerPair(md, source, idInSource) ==
    \E i, j \in RowIDs(md) :
        /\ IsCurrent(md[i]) /\ md[i].source = irts /\ md[i].field = "irts.source"
        /\ md[i].value = source
        /\ IsCurrent(md[j]) /\ md[j].source = irts /\ md[j].field = "irts.idInSource"
        /\ md[j].parentRowID = i /\ md[j].value = idInSource

\* the item of the last call was admitted before under another id-field
AdmittedUnderOtherField ==
    \E t \in last.admitted :
        t[1] = last.source /\ t[2] = last.idInSource /\ t[3] # last.field

\* C21: add_to_process of an item that was admitted under one id-field, called
\* with the same (source, idInSource) and another id-field, finds the pointer pair
\* (irts.source = source with the child irts.idInSource = idInSource), returns
\* 'existing' and creates no second identity.
C21_PointerPairFound ==
    (last.op = "add_to_process" /\ AdmittedUnderOtherField) =>
        /\ PointerPair(Pre, last.source, last.idInSource)
        /\ last.status = "existing"
        /\ last.idInIRTS = <<>>
        /\ metadata = Pre

\* the current values of a field of the item of the last call
ItemValues(md, field) ==
    {md[i].value : i \in {j \in RowIDs(md) :
                            /\ IsCurrent(md[j]) /\ md[j].source = last.source
                            /\ md[j].idInSource = last.idInSource
                            /\ md[j].field = field /\ Truthy(md[j].value)}}

\* some entity under 'repository' or 'irts' has a dc.title row with the title and
\* a dc.type row with the type
TitleAndTypeOfOneEntity(md, title, typeValue) ==
    \E i, j \in RowIDs(md) :
        /\ md[i].source \in {repository, irts}
        /\ md[i].field = "dc.title" /\ md[i].value = title
        /\ md[j].source = md[i].source /\ md[j].idInSource = md[i].idInSource
        /\ md[j].field = "dc.type" /\ md[j].value = typeValue

\* C22: add_to_process of an item with no DOI, a title and a type, that no other
\* lookup finds, returns 'existing' exactly when one entity (one source and
\* idInSource) under 'repository' or 'irts' has a dc.title row with that title and
\* a dc.type row with that type.
C22_TitleAndTypeOfOneEntity ==
    ( /\ last.op = "add_to_process"
      /\ ItemDois(Pre) = {}
      /\ ~Tracked(Pre, last.field, last.idInSource)
      /\ ~PointerPair(Pre, last.source, last.idInSource) ) =>
        \A title \in ItemValues(Pre, "dc.title"), typeValue \in ItemValues(Pre, "dc.type") :
            last.status = "existing" <=> TitleAndTypeOfOneEntity(Pre, title, typeValue)

\* a current top-level row of the identity the last call allocated
TrackingRow(place, field, value) ==
    \E i \in RowIDs(metadata) :
        /\ IsCurrentAt(metadata[i], irts, last.idInIRTS, NULL, field, place)
        /\ metadata[i].value = value

\* the tracking record of the last admission, every row of it at the place
TrackingRecordAt(place) ==
    /\ \E i, j \in RowIDs(metadata) :
          /\ IsCurrentAt(metadata[i], irts, last.idInIRTS, NULL, "irts.source", place)
          /\ metadata[i].value = last.source
          /\ IsCurrentAt(metadata[j], irts, last.idInIRTS, i, "irts.idInSource", place)
          /\ metadata[j].value = last.idInSource
    /\ TrackingRow(place, "irts.status", inProcess)
    /\ TrackingRow(place, last.field, last.idInSource)
    /\ \A v \in ItemValues(Pre, "dc.type") : TrackingRow(place, "dc.type", v)
    /\ \A v \in ItemValues(Pre, "dc.title") : TrackingRow(place, "dc.title", v)
    /\ \A v \in ItemValues(Pre, "dc.date.issued") :
          TrackingRow(place, "dc.date.issued", v)
    /\ last.field # "dc.identifier.doi" =>
          \A v \in ItemValues(Pre, "dc.identifier.doi") :
              TrackingRow(place, "dc.identifier.doi", v)
    /\ Truthy(last.basis) => TrackingRow(place, "irts.harvest.basis", last.basis)

\* C23: after add_to_process admits an item, the new identity has, each as a
\* current row at place 0: irts.source with the pointer irts.idInSource under it,
\* dc.type, irts.status 'inProcess', the id-field, dc.title, dc.date.issued,
\* dc.identifier.doi when the item has a DOI and the id-field is another field,
\* and irts.harvest.basis when a reason was given.
C23_TrackingRecordAtPlace0 ==
    (last.op = "add_to_process" /\ last.status = "inProcess") => TrackingRecordAt(0)

\* the rows the last call inserted
InsertedRows == RowIDs(metadata) \ RowIDs(Pre)

\* C24: add_to_process changes no row that was there: returning 'existing' it
\* leaves the table as it was, admitting it only inserts rows, all of them under
\* the identity it allocated, which no row had before.
C24_AdmissionOnlyInserts ==
    last.op = "add_to_process" =>
        /\ Len(metadata) >= Len(Pre)
        /\ \A i \in RowIDs(Pre) : metadata[i] = Pre[i]
        /\ last.status = "existing" => metadata = Pre
        /\ last.status = "inProcess" =>
              /\ \A i \in RowIDs(Pre) :
                    ~(Pre[i].source = irts /\ Pre[i].idInSource = last.idInIRTS)
              /\ \A i \in InsertedRows :
                    /\ metadata[i].source = irts
                    /\ metadata[i].idInSource = last.idInIRTS

\* an admission beside the tracking record of another item of the source
C24_Witness ==
    /\ last.op = "add_to_process" /\ last.status = "inProcess"
    /\ InsertedRows # {}
    /\ \E i \in RowIDs(Pre) :
          /\ IsCurrent(Pre[i]) /\ Pre[i].source = irts
          /\ Pre[i].field = "irts.source" /\ Pre[i].value = last.source

\* the <<k, p>> of the entries of the record of the last call: the p-th entry of
\* the k-th field, which save_values writes at place p - 1
EntryIndexes ==
    UNION {{<<k, p>> : p \in 1..Len(ValuesList(last.record[k].values))} :
              k \in 1..Len(last.record)}

EntryAt(kp) == ValuesList(last.record[kp[1]].values)[kp[2]]

\* an entry with no 'value' key, or with the value None or a blank string
PassedOver(e) ==
    \/ ~e.hasValue
    \/ e.value = None
    \/ IsStr(e.value) /\ \A n \in 1..Len(e.value) : e.value[n] \in WS

\* an entry with a sub-record of children that is not empty
WithChildren(e) == ~PassedOver(e) /\ e.hasChildren /\ e.children # <<>>

\* the current rows of an entry under the parent of the last call
EntryRows(md, kp) ==
    {i \in RowIDs(md) :
        IsCurrentAt(md[i], last.source, last.idInSource, last.parentRowID,
                    last.record[kp[1]].field, kp[2] - 1)}

\* the current rows under the row r
ChildRows(md, r) == {c \in RowIDs(md) : IsCurrent(md[c]) /\ md[c].parentRowID = r}

\* C25: in a complete save_values call the children of an entry are saved as a
\* complete sub-record, no current child of the entry's row is left whose field
\* the sub-record lacks; in a partial call the children of the fields the
\* sub-record lacks stay as they were.
C25_ChildrenCompleteAsOuter ==
    last.op = "save_values" =>
        \A kp \in EntryIndexes :
            WithChildren(EntryAt(kp)) =>
                /\ last.complete =>
                      \A r \in EntryRows(metadata, kp) :
                          \A c \in ChildRows(metadata, r) :
                              metadata[c].field \in RecordFields(EntryAt(kp).children)
                /\ ~last.complete =>
                      \A r \in EntryRows(Pre, kp) \cap EntryRows(metadata, kp) :
                          \A c \in ChildRows(Pre, r) :
                              Pre[c].field \notin RecordFields(EntryAt(kp).children)
                                  => metadata[c] = Pre[c]

\* an entry without the 'children' key whose value is that of the current row r
SameValueNoChildren(e, r) ==
    /\ ~PassedOver(e) /\ ~e.hasChildren
    /\ Pre[r].value = NormalizeValue(e.value)

\* C26: a save_values entry that carries the value of the current row and no
\* 'children' key leaves every current child of that row current and as it was,
\* in a complete call and in a partial one.
C26_ChildrenKeptWithoutKey ==
    last.op = "save_values" =>
        \A kp \in EntryIndexes :
            \A r \in EntryRows(Pre, kp) :
                SameValueNoChildren(EntryAt(kp), r) =>
                    /\ r \in EntryRows(metadata, kp)
                    /\ \A c \in ChildRows(Pre, r) : metadata[c] = Pre[c]

\* a complete call with such an entry for a row that has current children
C26_Witness ==
    /\ last.op = "save_values" /\ last.complete
    /\ \E kp \in EntryIndexes :
          \E r \in EntryRows(Pre, kp) :
              /\ SameValueNoChildren(EntryAt(kp), r)
              /\ ChildRows(Pre, r) # {}
              /\ ChildRows(metadata, r) = ChildRows(Pre, r)

\* the current rows of the (source, idInSource) of the last call under its parent
CurrentUnderParent(md) == {i \in RowIDs(md) : IsCurrent(md[i]) /\ UnderParent(md[i])}

EntryLines(kp) ==
    {n \in 1..Len(last.report) :
        /\ last.report[n].field = last.record[kp[1]].field
        /\ last.report[n].place = kp[2] - 1
        /\ last.report[n].parent = last.parentRowID}

\* the <<field, place, value>> a sub-record of children asks for
ChildTriples(children) ==
    UNION {{<<children[k].field, q - 1,
              NormalizeValue(ValuesList(children[k].values)[q].value)>> :
                q \in {n \in 1..Len(ValuesList(children[k].values)) :
                          ~PassedOver(ValuesList(children[k].values)[n])}} :
              k \in 1..Len(children)}

\* C28: the rows save_values creates for the children of an entry have as
\* parentRowID the rowID save_value returned for the entry in that call: the row
\* that was there when the entry is new or unchanged, the new row when its value
\* changed.
C28_ChildrenUnderReturnedRow ==
    (last.op = "save_values" /\ last.parentRowID = NULL) =>
        /\ \A kp \in EntryIndexes :
              WithChildren(EntryAt(kp)) =>
                  \E n \in EntryLines(kp) :
                      /\ last.report[n].rowID \in EntryRows(metadata, kp)
                      /\ \A t \in ChildTriples(EntryAt(kp).children) :
                            \E c \in ChildRows(metadata, last.report[n].rowID) :
                                /\ metadata[c].field = t[1] /\ metadata[c].place = t[2]
                                /\ metadata[c].value = t[3]
        /\ \A i \in InsertedRows :
              metadata[i].parentRowID # NULL =>
                  \E kp \in EntryIndexes :
                      /\ WithChildren(EntryAt(kp))
                      /\ metadata[i].parentRowID \in EntryRows(metadata, kp)
                      /\ \E n \in EntryLines(kp) :
                            last.report[n].rowID = metadata[i].parentRowID

\* the value of an entry changed: its children are created under the new row
C28_Witness ==
    /\ last.op = "save_values" /\ last.parentRowID = NULL
    /\ \E kp \in EntryIndexes :
          /\ WithChildren(EntryAt(kp))
          /\ \E n \in EntryLines(kp) :
                /\ last.report[n].status = "updated"
                /\ last.report[n].rowID \in InsertedRows
                /\ \E c \in InsertedRows :
                      metadata[c].parentRowID = last.report[n].rowID

\* s is v without the whitespace around it
IsTrimOf(s, v) ==
    /\ s = <<>> \/ (s[1] \notin WS /\ s[Len(s)] \notin WS)
    /\ \E a \in 0..Len(v) :
          /\ a + Len(s) <= Len(v)
          /\ SubSeq(v, a + 1, a + Len(s)) = s
          /\ \A n \in (1..a) \cup ((a + Len(s) + 1)..Len(v)) : v[n] \in WS

\* s is what save_value stores and compares for the value v
IsStoredFor(s, v) ==
    IF v = PyTrue THEN s = <<"T", "R", "U", "E">>
    ELSE IF v = PyFalse THEN s = <<"F", "A", "L", "S", "E">>
    ELSE IF v = None THEN s = None
    ELSE IsTrimOf(s, v)

\* the current rows of the key of the last call
KeyRows(md) ==
    {i \in RowIDs(md) :
        IsCurrentAt(md[i], last.source, last.idInSource, last.parentRowID,
                    last.field, last.place)}

\* C29: save_value compares after normalization: a value that differs from the
\* current one by surrounding whitespace only returns 'unchanged' and creates no
\* row; the row it inserts holds the trimmed string; a boolean is stored and
\* compared as 'TRUE' or 'FALSE'.
C29_ComparedAfterNormalization ==
    last.op = "save_value" =>
        /\ \A r \in KeyRows(Pre) :
              IsStoredFor(Pre[r].value, last.value) =>
                  /\ last.status = "unchanged" /\ last.rowID = r
                  /\ metadata = Pre
        /\ last.status \in {"new", "updated"} =>
              /\ last.rowID \in InsertedRows
              /\ IsStoredFor(metadata[last.rowID].value, last.value)

\* a padded string over its trimmed value
C29_Witness ==
    /\ last.op = "save_value" /\ last.status = "unchanged"
    /\ IsStr(last.value)
    /\ \E r \in KeyRows(Pre) :
          Pre[r].value # last.value /\ IsStoredFor(Pre[r].value, last.value)

\* the rows of the place of an entry under the parent, current or not
PlaceRows(md, kp) ==
    {i \in RowIDs(md) :
        /\ UnderParent(md[i]) /\ md[i].field = last.record[kp[1]].field
        /\ md[i].place = kp[2] - 1}

\* C30: save_values passes over an entry that is empty, has no 'value' key, or
\* whose value is None or a blank string: no row of its (field, place) is
\* inserted or changed and the report has no line for it; the other entries of
\* the list are written at the places of their indices.
C30_EmptyEntriesPassedOver ==
    last.op = "save_values" =>
        \A kp \in EntryIndexes :
            IF PassedOver(EntryAt(kp))
            THEN /\ PlaceRows(metadata, kp) = PlaceRows(Pre, kp)
                 /\ \A i \in PlaceRows(Pre, kp) : metadata[i] = Pre[i]
                 /\ EntryLines(kp) = {}
            ELSE /\ EntryLines(kp) # {}
                 /\ \E r \in EntryRows(metadata, kp) :
                       IsStoredFor(metadata[r].value, EntryAt(kp).value)

\* an entry is passed over at a place that has a current row, an entry after it
\* is written at its index
C30_Witness ==
    /\ last.op = "save_values"
    /\ \E kp, kq \in EntryIndexes :
          /\ kp[1] = kq[1] /\ kp[2] < kq[2]
          /\ PassedOver(EntryAt(kp)) /\ ~PassedOver(EntryAt(kq))
          /\ EntryRows(Pre, kp) # {} /\ EntryRows(metadata, kp) = EntryRows(Pre, kp)
          /\ EntryRows(metadata, kq) \cap InsertedRows # {}

\* some row under 'repository' or 'irts' is a dc.title row with the title, and
\* some row of its idInSource under these sources a dc.type row with the type:
\* what the query of base.py:143-152 asks for
TitleAndTypeLookup(md) ==
    /\ ItemDois(md) = {}
    /\ \E title \in ItemValues(md, "dc.title"), typeValue \in ItemValues(md, "dc.type") :
          \E i, j \in RowIDs(md) :
              /\ md[i].source \in {repository, irts} /\ md[j].source \in {repository, irts}
              /\ md[i].field = "dc.title" /\ md[i].value = title
              /\ md[j].idInSource = md[i].idInSource
              /\ md[j].field = "dc.type" /\ md[j].value = typeValue

\* one of the four lookups of add_to_process finds the item of the last call
SomeLookupMatches(md) ==
    \/ Tracked(md, last.field, last.idInSource)
    \/ /\ last.field # "dc.identifier.doi"
       /\ \E doi \in ItemDois(md) : Tracked(md, "dc.identifier.doi", doi)
    \/ TitleAndTypeLookup(md)
    \/ PointerPair(md, last.source, last.idInSource)

\* C31: add_to_process returns 'existing' only if one of the four lookups (id-field
\* value, DOI, title and type, pointer pair) matches; when none matches it admits
\* the item under an identity no row had before.
C31_ExistingOnlyByLookup ==
    last.op = "add_to_process" =>
        /\ last.status \in {"existing", "inProcess"}
        /\ last.status = "existing" => SomeLookupMatches(Pre)
        /\ ~SomeLookupMatches(Pre) =>
              /\ last.status = "inProcess"
              /\ last.idInIRTS # <<>>
              /\ \A i \in RowIDs(Pre) :
                    ~(Pre[i].source = irts /\ Pre[i].idInSource = last.idInIRTS)
              /\ \E i \in InsertedRows : metadata[i].idInSource = last.idInIRTS

\* no lookup matches beside records of the repository and a tracking record
C31_Witness ==
    /\ last.op = "add_to_process" /\ last.status = "inProcess"
    /\ ~SomeLookupMatches(Pre)
    /\ \E i \in RowIDs(Pre) : IsCurrent(Pre[i]) /\ Pre[i].source \in {repository, irts}

\* the rows the mappings table had for the arguments of the last map_field
CallRows ==
    {m \in mapper.call.mappings :
        /\ m.source = mapper.call.source
        /\ m.parentFieldInSource = mapper.call.parentField
        /\ m.sourceField = mapper.call.sourceField}

MapFieldCalled == mapper.call.source # <<>>

\* C32 as stated: map_field returns the standardField of the mappings row of
\* (source, parent field, source field) when there is one, and
\* '{source}.{source_field}' in every case where there is none.
C32_MappedOrNamespaced ==
    MapFieldCalled =>
        IF CallRows # {}
        THEN mapper.call.result \in {m.standardField : m \in CallRows}
        ELSE mapper.call.result = mapper.call.source \o <<".">> \o mapper.call.sourceField

\* C32 amended: a map_field call whose cache key is not cached returns the
\* standardField of a mappings row of (source, parent field, source field) when
\* there is one; when there is none it returns '{source}.{source_field}' for a
\* source_field without '.', and the source_field itself for one that has a '.';
\* a call whose key is cached returns the cached result.
C32_MappedOrNamespacedUnlessDotted ==
    MapFieldCalled =>
        IF mapper.call.cached
        THEN [key |-> CacheKey(mapper.call.source, mapper.call.parentField,
                               mapper.call.sourceField),
              value |-> mapper.call.result] \in mapper.cache
                 \/ mapper.cache = {}
        ELSE IF CallRows # {}
        THEN mapper.call.result \in {m.standardField : m \in CallRows}
        ELSE IF \E n \in 1..Len(mapper.call.sourceField) : mapper.call.sourceField[n] = "."
        THEN mapper.call.result = mapper.call.sourceField
        ELSE mapper.call.result = mapper.call.source \o <<".">> \o mapper.call.sourceField

\* a field with its namespace and no mapping row is returned as it is
C32_Witness ==
    /\ MapFieldCalled /\ ~mapper.call.cached /\ CallRows = {}
    /\ mapper.call.mappings # {}
    /\ mapper.call.sourceField = Namespaced
    /\ mapper.call.result = Namespaced

\* every current row under a parent has a current parent
CurrentParents(md) ==
    \A i \in RowIDs(md) :
        (IsCurrent(md[i]) /\ md[i].parentRowID # NULL) => IsCurrent(md[md[i].parentRowID])

\* C33: save_values, called at the top level or under a current parent on a table
\* where every current row under a parent has a current parent, leaves such a
\* table: the rows it soft-deletes by value change, place pruning or field pruning
\* keep no current row under them.
C33_NoCurrentRowUnderDeleted ==
    ( /\ last.op = "save_values"
      /\ CurrentParents(Pre)
      /\ last.parentRowID # NULL => IsCurrent(Pre[last.parentRowID]) ) =>
        CurrentParents(metadata)

\* C34: in a sequential run no two admissions return the same identity, and the
\* identity of an admission is the idInSource of no row under 'irts', the
\* soft-deleted rows counted.
C34_IdentitiesNeverReused ==
    /\ \A m, n \in 1..Len(last.issued) : m # n => last.issued[m] # last.issued[n]
    /\ (last.op = "add_to_process" /\ last.status = "inProcess") =>
          /\ last.issued # <<>> /\ last.issued[Len(last.issued)] = last.idInIRTS
          /\ \A i \in RowIDs(Pre) :
                ~(Pre[i].source = irts /\ Pre[i].idInSource = last.idInIRTS)

\* a second admission after rows of the first tracking record were soft-deleted
C34_Witness ==
    /\ last.op = "add_to_process" /\ last.status = "inProcess"
    /\ Len(last.issued) = 2
    /\ \E i \in RowIDs(Pre) :
          /\ Pre[i].source = irts /\ Pre[i].idInSource = last.issued[1]
          /\ ~IsCurrent(Pre[i]) /\ Pre[i].field = "irts.source"

\* no current row under 'repository' or 'irts' has the id-field value, a DOI, the
\* title or the type of the item of the last call, and no current pointer pair
\* names it
NoCurrentMatch(md) ==
    /\ ~Tracked(md, last.field, last.idInSource)
    /\ \A doi \in ItemDois(md) : ~Tracked(md, "dc.identifier.doi", doi)
    /\ \A title \in ItemValues(md, "dc.title") : ~Tracked(md, "dc.title", title)
    /\ \A typeValue \in ItemValues(md, "dc.type") : ~Tracked(md, "dc.type", typeValue)
    /\ ~PointerPair(md, last.source, last.idInSource)

\* C35: the admission looks at current rows only: when every row under
\* 'repository' or 'irts' that matches the id-field value, the DOI, the title and
\* type or the pointer pair of the item is soft-deleted, add_to_process admits it.
C35_DeletedRowsNeverMatch ==
    (last.op = "add_to_process" /\ NoCurrentMatch(Pre)) => last.status = "inProcess"

\* C36: after any sequence of save_values and add_to_process calls every row of
\* the metadata table has a value that is neither NULL nor the empty string, the
\* rows of the tracking record of an item without type, title or date included.
C36_NoRowWithoutValue ==
    \A i \in RowIDs(metadata) : metadata[i].value # None /\ metadata[i].value # <<>>

----------------------------------------------------------------------------
(* SpecFrame: records with children are saved for an item, at the top     *)
(* level and under a row of the item, beside the records of another item.  *)

\* the writing calls of a run of SpecFrame
MaxFrameWrites == 3

FrameRecords ==
    { <<Item("dc.contributor.author", List(<<EntryWithChildren(A, Affiliation(A))>>))>>,
      <<Item("dc.contributor.author", List(<<EntryWithChildren(A, Affiliation(B))>>))>>,
      <<Item("dc.contributor.author", List(<<EntryWithChildren(B, Affiliation(A))>>))>>,
      <<Item("dc.title", List(<<Entry(A)>>))>> }

SaveFramed ==
    \E record \in FrameRecords, complete \in BOOLEAN :
        DoSaveValuesWithin(MaxFrameWrites, Arxiv7, record, NULL, {}, complete)

SaveFramedUnder ==
    \E parent \in Parents(metadata, Arxiv7), complete \in BOOLEAN,
       record \in {<<>>, Affiliation(B)} :
        DoSaveValuesWithin(MaxFrameWrites, Arxiv7, record, parent, {}, complete)

SaveOtherFramed ==
    DoSaveValuesWithin(MaxFrameWrites, Arxiv8,
                       <<Item("dc.contributor.author",
                              List(<<EntryWithChildren(A, Affiliation(A))>>))>>,
                       NULL, {}, TRUE)

NextFrame ==
    \/ SaveFramed
    \/ SaveFramedUnder
    \/ SaveOtherFramed

SpecFrame == Init /\ [][NextFrame]_vars

\* the rows that are not as they were before the call
ChangedRows ==
    {i \in RowIDs(metadata) : i \notin RowIDs(Pre) \/ metadata[i] # Pre[i]}

\* the rows save_value returned for the entries of the call, at every level
ReturnedRows == {last.report[n].rowID : n \in 1..Len(last.report)}

OfCalledEntity(r) == r.source = last.source /\ r.idInSource = last.idInSource

\* C37 as stated: a save_values call changes only rows of its (source,
\* idInSource) whose parentRowID is the given parent or a row that the call
\* inserted or changed.
C37_OnlyUnderWrittenRows ==
    last.op = "save_values" =>
        \A i \in ChangedRows :
            /\ OfCalledEntity(metadata[i])
            /\ \/ metadata[i].parentRowID = last.parentRowID
               \/ metadata[i].parentRowID \in ChangedRows

\* C37: a save_values call changes only rows of its (source, idInSource) whose
\* parentRowID is the given parent, a row that the call inserted or changed, or
\* the row save_value returned unchanged for an entry that has children; every
\* row of another (source, idInSource) and every row under another parent is as
\* it was.
C37_OnlyUnderReturnedRows ==
    last.op = "save_values" =>
        /\ \A i \in ChangedRows :
              /\ OfCalledEntity(metadata[i])
              /\ \/ metadata[i].parentRowID = last.parentRowID
                 \/ metadata[i].parentRowID \in ChangedRows \cup ReturnedRows
        /\ \A i \in RowIDs(Pre) :
              ~OfCalledEntity(Pre[i]) => metadata[i] = Pre[i]

\* the call supersedes a row and its children while the other item has rows with
\* children of its own
C37_Witness ==
    /\ last.op = "save_values"
    /\ \E i \in RowIDs(Pre) :
          /\ OfCalledEntity(Pre[i]) /\ Pre[i].parentRowID # NULL
          /\ IsCurrent(Pre[i]) /\ ~IsCurrent(metadata[i])
    /\ \E i \in RowIDs(Pre) :
          /\ ~OfCalledEntity(Pre[i]) /\ Pre[i].parentRowID # NULL
          /\ IsCurrent(Pre[i])

----------------------------------------------------------------------------
(* SpecMain: main (harvest.py:124-201) harvests the sources of its list    *)
(* one by one.  harvest_source (harvest.py:75-121) makes a harvester, the   *)
(* harvester asks for items and processes what it receives, record by       *)
(* record.  The responses of the APIs are inputs: the items of a 'new'      *)
(* harvest are any items, those of a 'reharvest' answer the ids the         *)
(* harvester read from the metadata table.                                  *)

\* the length of the list of sources
MaxSources == 2
\* the items a 'new' harvest asks for
MaxBatch == 2
\* the records that are processed or saved in a run of SpecMain
MaxPasses == 3

scopus == <<"s", "c", "o", "p", "u", "s">>

\* harvest.py:48-52
HARVESTERS == {arxiv, crossref}

SourceNames == {arxiv, crossref, scopus}

HarvestTypes == {"new", "reharvest"}

SeqsUpTo(S, n) == UNION {[1..k -> S] : k \in 0..n}

UpperLetters ==
    <<"A", "B", "C", "D", "E", "F", "G", "H", "I", "J", "K", "L", "M", "N", "O", "P",
      "Q", "R", "S", "T", "U", "V", "W", "X", "Y", "Z">>
LowerLetters ==
    <<"a", "b", "c", "d", "e", "f", "g", "h", "i", "j", "k", "l", "m", "n", "o", "p",
      "q", "r", "s", "t", "u", "v", "w", "x", "y", "z">>

\* str.lower (crossref.py:370)
Lower(s) ==
    [i \in DOMAIN s |->
        IF \E k \in DOMAIN UpperLetters : UpperLetters[k] = s[i]
        THEN LowerLetters[CHOOSE k \in DOMAIN UpperLetters : UpperLetters[k] = s[i]]
        ELSE s[i]]

DoiX == <<"1", "/", "X">>

\* arxiv.py:151-157, crossref.py:308-315: the ids a 'reharvest' asks for
ReharvestIds(md, source) ==
    IF source = arxiv
    THEN {md[i].value : i \in {j \in RowIDs(md) :
                                  /\ md[j].source = repository
                                  /\ md[j].field = "dc.identifier.arxivid"
                                  /\ md[j].deleted = NULL}}
    ELSE {md[i].value : i \in {j \in RowIDs(md) :
                                  /\ md[j].source = crossref
                                  /\ md[j].field = "dc.identifier.doi"
                                  /\ md[j].deleted = NULL}}

\* the ids a 'new' harvest may come upon; the DOIs it discovers are in lower
\* case (crossref.py:132-141, 192, 234, 279)
NewIds(source) == IF source = arxiv THEN {Id7} ELSE {Lower(DoiX)}

\* what an API answers for an id: a record with a title, or nothing the harvester
\* can use (an entry of another year, no entry, no metadata).  doi is the 'DOI'
\* of the Crossref metadata, in the case of the registry.
Responses(source, ids) ==
    {[id |-> id, doi |-> doi, title |-> title, usable |-> usable] :
        id \in ids, doi \in IF source = arxiv THEN {<<>>} ELSE {DoiX, Lower(DoiX)},
        title \in {A, B}, usable \in BOOLEAN}

RunSource == run.sources[run.index]

\* crossref.py:380-409: the record process_record builds of the metadata
CrossrefRecord(item) ==
    <<Item("dc.title", List(<<Entry(item.title)>>)),
      Item("dc.identifier.doi", List(<<Entry(item.doi)>>))>>

\* process_record of the harvester of source (arxiv.py:182-238,
\* crossref.py:358-437): what it wrote and what it returned
RunProcessRecord(sd, md, now, source, item) ==
    IF source = arxiv
    THEN LET entry == [id |-> item.id, title |-> item.title,
                       authors |-> <<Entry(A)>>]
             rec == ProcessRecord(sd, md, now, source, entry)
         IN  [sd |-> rec.sd, md |-> rec.md, idInSource |-> item.id,
              recordType |-> SaveSourceData(sd, now, source, item.id, item.title,
                                            "XML").recordType]
    ELSE LET saved == SaveSourceData(sd, now, source, Lower(item.doi),
                                     item.doi \o item.title, "JSON")
         IN  [sd |-> saved.sd,
              md |-> SaveValues(md, now, source, Lower(item.doi), CrossrefRecord(item),
                                NULL, {}, TRUE).md,
              idInSource |-> Lower(item.doi), recordType |-> saved.recordType]

\* _reharvest of the arXiv harvester (arxiv.py:149-180) counts the record under
\* its recordType alone and admits nothing
CountsAll(source, type) == ~(source = arxiv /\ type = "reharvest")

\* arxiv.py:120, 128; crossref.py:327, 334
Counted(counts, source, type, recordType) ==
    LET c == IF CountsAll(source, type) THEN [counts EXCEPT !.all = @ + 1]
             ELSE counts
    IN  [c EXCEPT ![recordType] = @ + 1]

\* the dictionary harvest_source returns for an unknown source and for a
\* harvester that raised (harvest.py:86-91, 116-121)
ErrorResult(source, kind) ==
    [source |-> source, changedCount |-> 0, error |-> TRUE, kind |-> kind,
     counts |-> ZeroCounts, types |-> <<>>]

\* main stops at the error
AfterErrorStop(r, result) ==
    [r EXCEPT !.results = Append(@, result), !.pc = "done"]

\* main adds the result and goes on with the next source (harvest.py:164-175)
AfterError(r, result) ==
    [r EXCEPT !.results = Append(@, result), !.total = @ + result.changedCount,
              !.index = @ + 1, !.pc = "main"]

\* harvest.py:141-162
StartMain ==
    /\ run.pc = "idle"
    /\ \E sources \in SeqsUpTo(SourceNames, MaxSources) \ {<<>>},
          type \in HarvestTypes :
          run' = [NoRun EXCEPT !.pc = "main", !.sources = sources, !.type = type]
    /\ UNCHANGED <<metadata, sourceData, clock, last, procs, harvest, mapper>>

\* harvest.py:86-91
HarvestUnknownSource ==
    /\ run.pc = "main" /\ run.index <= Len(run.sources)
    /\ RunSource \notin HARVESTERS
    /\ run' = AfterError(run, ErrorResult(RunSource, "unknown"))
    /\ UNCHANGED <<metadata, sourceData, clock, last, procs, harvest, mapper>>

\* harvest.py:96-105: the harvester is made and harvest() begins
StartHarvester ==
    /\ run.pc = "main" /\ run.index <= Len(run.sources)
    /\ RunSource \in HARVESTERS
    /\ run' = [run EXCEPT !.pc = "harvest", !.counts = ZeroCounts, !.types = <<>>,
                          !.asked = 0,
                          !.todo = IF run.type = "reharvest"
                                   THEN ReharvestIds(metadata, RunSource) ELSE {}]
    /\ UNCHANGED <<metadata, sourceData, clock, last, procs, harvest, mapper>>

\* the constructor or the first query of the harvester raises (harvest.py:116-121)
HarvesterFailsToStart ==
    /\ run.pc = "main" /\ run.index <= Len(run.sources)
    /\ RunSource \in HARVESTERS
    /\ run' = AfterError(run, ErrorResult(RunSource, "raised"))
    /\ UNCHANGED <<metadata, sourceData, clock, last, procs, harvest, mapper>>

\* the items the harvester at work may receive next
NextItems ==
    IF run.type = "reharvest" THEN Responses(RunSource, run.todo)
    ELSE IF run.asked < MaxBatch THEN Responses(RunSource, NewIds(RunSource))
    ELSE {}

\* arxiv.py:139-141, 166-170; crossref.py:324-325: nothing to process.  The 'new'
\* harvest of arXiv counts the entry as skipped.
SkipItem ==
    /\ run.pc = "harvest"
    /\ \E item \in NextItems :
          /\ ~item.usable
          /\ run' = [run EXCEPT
                        !.todo = @ \ {item.id}, !.asked = @ + 1,
                        !.counts = IF RunSource = arxiv /\ run.type # "reharvest"
                                   THEN [@ EXCEPT !.skipped = @ + 1] ELSE @]
    /\ UNCHANGED <<metadata, sourceData, clock, last, procs, harvest, mapper>>

\* add_to_process as the loop calls it (arxiv.py:131-137, crossref.py:337-342);
\* _reharvest of the arXiv harvester does not call it
RunAddToProcess(source, type, rec, item) ==
    IF ~CountsAll(source, type)
    THEN metadata' = rec.md
    ELSE LET idInSource == IF source = arxiv THEN rec.idInSource ELSE item.id
             idField == IF source = arxiv THEN "dc.identifier.arxivid"
                        ELSE "dc.identifier.doi"
         IN  \E typeValue \in CurrentValues(rec.md, source, idInSource, "dc.type"),
                doi \in CurrentValues(rec.md, source, idInSource, "dc.identifier.doi"),
                title \in CurrentValues(rec.md, source, idInSource, "dc.title"),
                dateIssued \in CurrentValues(rec.md, source, idInSource,
                                             "dc.date.issued") :
               metadata' = AddToProcess(rec.md, Now, source, idInSource, idField,
                                        Basis, typeValue, doi, title, dateIssued).md

\* one record is processed (arxiv.py:119-137, 169-172; crossref.py:327-343)
ProcessItem ==
    /\ run.pc = "harvest" /\ clock < MaxPasses
    /\ \E item \in NextItems :
          /\ item.usable
          /\ LET rec == RunProcessRecord(sourceData, metadata, Now, RunSource, item)
             IN  /\ sourceData' = rec.sd
                 /\ RunAddToProcess(RunSource, run.type, rec, item)
                 /\ run' = [run EXCEPT
                               !.todo = @ \ {item.id}, !.asked = @ + 1,
                               !.counts = Counted(@, RunSource, run.type,
                                                  rec.recordType),
                               !.types = Append(@, rec.recordType)]
    /\ clock' = clock + 1
    /\ UNCHANGED <<last, procs, harvest, mapper>>

\* a statement raises while a record is processed: the error leaves the loop and
\* harvest(), harvest_source returns its error summary (harvest.py:116-121)
ItemRaises ==
    /\ run.pc = "harvest" /\ clock < MaxPasses
    /\ \E item \in NextItems :
          /\ item.usable
          /\ \E point \in {"save_source_data", "save_values"}
                          \cup IF CountsAll(RunSource, run.type)
                               THEN {"add_to_process"} ELSE {} :
                Interrupted(RunProcessRecord(sourceData, metadata, Now, RunSource,
                                             item), point)
    /\ run' = AfterError(run, ErrorResult(RunSource, "raised"))
    /\ clock' = clock + 1
    /\ UNCHANGED <<last, procs, harvest, mapper>>

\* harvest() returns (arxiv.py:44-50, crossref.py:63-69) and main adds the result
\* (harvest.py:170-172)
ReturnHarvest ==
    /\ run.pc = "harvest"
    /\ run.type = "reharvest" => run.todo = {}
    /\ LET changedCount == run.counts.all - run.counts.unchanged
       IN  run' = [run EXCEPT
                      !.results = Append(@, [source |-> RunSource,
                                             changedCount |-> changedCount,
                                             error |-> FALSE, kind |-> "returned",
                                             counts |-> run.counts,
                                             types |-> run.types]),
                      !.total = @ + changedCount, !.index = @ + 1, !.pc = "main"]
    /\ UNCHANGED <<metadata, sourceData, clock, last, procs, harvest, mapper>>

\* harvest.py:177-201: the report is mailed when something changed
FinishMain ==
    /\ run.pc = "main" /\ run.index > Len(run.sources)
    /\ run' = [run EXCEPT !.pc = "done", !.mailed = run.total > 0]
    /\ UNCHANGED <<metadata, sourceData, clock, last, procs, harvest, mapper>>

\* before main runs the repository record gets the arXiv id of the item
SaveRepositoryPointer ==
    /\ run.pc = "idle" /\ clock < MaxPasses
    /\ metadata' = SaveValues(metadata, Now, repository, IdR,
                              <<Item("dc.identifier.arxivid", List(<<Entry(Id7)>>))>>,
                              NULL, {}, TRUE).md
    /\ metadata' # metadata
    /\ clock' = clock + 1
    /\ UNCHANGED <<sourceData, last, procs, harvest, mapper, run>>

\* before main runs an earlier 'new' harvest has processed a record of a source
SaveEarlierRecord ==
    /\ run.pc = "idle" /\ clock < MaxPasses
    /\ \E source \in HARVESTERS :
          \E item \in Responses(source, NewIds(source)) :
             /\ item.usable /\ item.title = A
             /\ LET rec == RunProcessRecord(sourceData, metadata, Now, source, item)
                IN  /\ sourceData' = rec.sd
                    /\ RunAddToProcess(source, "new", rec, item)
                    /\ rec.recordType = "new"
    /\ clock' = clock + 1
    /\ UNCHANGED <<last, procs, harvest, mapper, run>>

NextMain ==
    \/ StartMain
    \/ HarvestUnknownSource
    \/ StartHarvester
    \/ HarvesterFailsToStart
    \/ SkipItem
    \/ ProcessItem
    \/ ItemRaises
    \/ ReturnHarvest
    \/ FinishMain
    \/ SaveRepositoryPointer
    \/ SaveEarlierRecord

SpecMain == Init /\ [][NextMain]_vars

\* the records of a result that came out other than 'unchanged'
ChangedRecords(result) ==
    {n \in 1..Len(result.types) : result.types[n] # "unchanged"}

\* C38: the changedCount harvest() returns is the number of records the run
\* processed whose recordType is not 'unchanged', it is never negative, and
\* record_counts['all'] is the sum of the counts of 'new', 'modified' and
\* 'unchanged', for every harvester and every harvest type.
C38_ChangedCountCountsChanges ==
    \A k \in 1..Len(run.results) :
        run.results[k].kind = "returned" =>
            /\ run.results[k].changedCount = Cardinality(ChangedRecords(run.results[k]))
            /\ run.results[k].changedCount >= 0
            /\ run.results[k].counts.all =
                  run.results[k].counts.new + run.results[k].counts.modified
                  + run.results[k].counts.unchanged

\* C39: in main, an unknown source and a harvester that raised give a result with
\* changedCount 0 and an error summary, each source has its result at its place
\* of the list, and main ends only when every source of the list has one.
C39_ErrorsDoNotStopMain ==
    /\ Len(run.results) <= Len(run.sources)
    /\ run.pc \in {"main", "harvest"} => Len(run.results) = run.index - 1
    /\ run.pc = "done" => Len(run.results) = Len(run.sources)
    /\ \A k \in 1..Len(run.results) :
          /\ run.results[k].source = run.sources[k]
          /\ run.results[k].kind = "unknown" <=> run.sources[k] \notin HARVESTERS
          /\ run.results[k].kind \in {"unknown", "raised"} =>
                run.results[k].changedCount = 0 /\ run.results[k].error
          /\ run.results[k].kind = "returned" => ~run.results[k].error

\* main is through: a source that gave an error is followed by a source whose
\* harvester processed a record and returned
C39_Witness ==
    /\ run.pc = "done"
    /\ \E k \in 1..(Len(run.results) - 1) :
          /\ run.results[k].error
          /\ run.results[k + 1].kind = "returned"
          /\ run.results[k + 1].types # <<>>


====
